---- MODULE Spec2Model ----
(***************************************************************************)
(* SwaggerHub validation report: the Validation Engine (normalisation,     *)
(* severity mapping, categorisation, scoring) and the Diff Engine.         *)
(*                                                                         *)
(* JavaScript values are represented as follows.                           *)
(*  - a string the code transforms (rule names, raw severities, paths) is  *)
(*    a sequence of one-character strings, so that toUpperCase,            *)
(*    toLowerCase, includes and concatenation are computed;                *)
(*  - a string the code only copies (messages, versions, labels the code   *)
(*    itself writes such as 'Error') is a TLA+ string;                     *)
(*  - an object is a record; a property that is undefined is a field that  *)
(*    is absent from the record's DOMAIN;                                  *)
(*  - a value that may be a number or a string is tagged: [num |-> n] or   *)
(*    [str |-> s]; null is the record Null.                                *)
(***************************************************************************)
EXTENDS Integers, Sequences, FiniteSets, TLC

VARIABLES
    standardizationData,  \* the argument of ValidationEngine.validate
    validationResults,    \* its return value {issues, summary}
    currentResults,       \* first argument of DiffEngine.compare
    previousScan,         \* second argument of DiffEngine.compare (or Null)
    diff,                 \* the diff report (Null before compare has run)
    store,                \* the S3 object scan-history/<owner>/<apiName>/latest.json
    run,                  \* the locals of each handler invocation and its position
    clock,                \* number of snapshots written so far (orders scannedAt)
    reportData,           \* the argument of ReportGenerator.generate
    pdfDocument           \* the PDFDocument being composed (Null before generate)

vars ==
    <<standardizationData, validationResults, currentResults, previousScan, diff,
      store, run, clock, reportData, pdfDocument>>

validateVars == <<standardizationData, validationResults>>

diffVars == <<currentResults, previousScan, diff>>

handlerVars == <<store, run, clock>>

engineVars == <<standardizationData, validationResults, currentResults, previousScan, diff>>

reportVars == <<reportData, pdfDocument>>

----------------------------------------------------------------------------
(* Bounds of the model.                                                    *)

\* number of freely chosen raw records at the head of a violation list
MaxRecords == 3

\* number of raw records in a violation list of the severity mapping
MaxSeverityRecords == 2

\* number of rule identifiers in a categorized violation list
MaxRuleNames == 2

\* number of records with missing fields in a violation list
MaxDefaultingRecords == 2

\* total length of a violation list (the tail repeats the last record)
MaxErrors == 13

\* length up to which every permutation of an issue list is scored
MaxPermLen == 4

\* number of raw records in the violation lists handed to the diff
MaxDiffRecords == 2

----------------------------------------------------------------------------
(* JavaScript primitives.                                                  *)

Null == [null |-> TRUE]

Num(n) == [num |-> n]

Str(s) == [str |-> s]

Has(obj, field) == field \in DOMAIN obj

Bool(b) == [bool |-> b]

\* an object that is not an array
Object(fields) == [object |-> fields]

\* an array value, where a value of another type may stand in its place
Arr(q) == [arr |-> q]

\* Array.isArray for a tagged value
IsArray(v) == Has(v, "arr")

\* the outcome of a call that threw: the error's message
Threw(message) == [threw |-> message]

\* a call returned normally
Returned(outcome) == ~Has(outcome, "threw")

LowerCaseLetters ==
    <<"a","b","c","d","e","f","g","h","i","j","k","l","m",
      "n","o","p","q","r","s","t","u","v","w","x","y","z">>

UpperCaseLetters ==
    <<"A","B","C","D","E","F","G","H","I","J","K","L","M",
      "N","O","P","Q","R","S","T","U","V","W","X","Y","Z">>

\* lower-case letter -> upper-case letter
UpperCaseOf ==
    [c \in {LowerCaseLetters[k] : k \in 1..26} |->
        UpperCaseLetters[CHOOSE k \in 1..26 : LowerCaseLetters[k] = c]]

\* upper-case letter -> lower-case letter
LowerCaseOf ==
    [c \in {UpperCaseLetters[k] : k \in 1..26} |->
        LowerCaseLetters[CHOOSE k \in 1..26 : UpperCaseLetters[k] = c]]

ToUpperChar(c) == IF c \in DOMAIN UpperCaseOf THEN UpperCaseOf[c] ELSE c

ToLowerChar(c) == IF c \in DOMAIN LowerCaseOf THEN LowerCaseOf[c] ELSE c

toUpperCase(s) == [k \in 1..Len(s) |-> ToUpperChar(s[k])]

toLowerCase(s) == [k \in 1..Len(s) |-> ToLowerChar(s[k])]

\* String.prototype.includes
includes(s, sub) ==
    \E k \in 0..(Len(s) - Len(sub)) :
        \A j \in 1..Len(sub) : s[k + j] = sub[j]

DecimalDigits == <<"0","1","2","3","4","5","6","7","8","9">>

RECURSIVE NumberToString(_)
\* String(n) for a non-negative integer
NumberToString(n) ==
    IF n < 10 THEN <<DecimalDigits[n + 1]>>
    ELSE NumberToString(n \div 10) \o <<DecimalDigits[(n % 10) + 1]>>

\* String(v) for a tagged string or number
String(v) == IF Has(v, "num") THEN NumberToString(v.num) ELSE v.str

\* !v for a tagged value: null, false, 0 and '' are falsy, arrays and objects
\* are not
IsFalsy(v) ==
    \/ Has(v, "null")
    \/ Has(v, "bool") /\ ~v.bool
    \/ Has(v, "num") /\ v.num = 0
    \/ Has(v, "str") /\ v.str = <<>>

----------------------------------------------------------------------------
(* String literals of the source.                                          *)

sERROR == <<"E","R","R","O","R">>
sWARN == <<"W","A","R","N">>
sWARNING == <<"W","A","R","N","I","N","G">>
sINFO == <<"I","N","F","O">>
sINFORMATION == <<"I","N","F","O","R","M","A","T","I","O","N">>
sHINT == <<"H","I","N","T">>
sStandardization == <<"s","t","a","n","d","a","r","d","i","z","a","t","i","o","n">>
sLinePrefix == <<"l","i","n","e"," ">>
sFingerprintSeparator == <<":",":">>

----------------------------------------------------------------------------
(* ValidationEngine (standardization results).                             *)

SeverityLabels == <<"Error", "Warning", "Information", "Hint">>

\* mapSeverity(severity): the human-readable label of a raw severity
mapSeverity(severity) ==
    IF IsFalsy(severity) THEN "Warning"
    ELSE LET s == toUpperCase(String(severity)) IN
         IF s = sERROR \/ s = <<"0">> THEN "Error"
         ELSE IF s = sWARN \/ s = sWARNING \/ s = <<"1">> THEN "Warning"
         ELSE IF s = sINFO \/ s = sINFORMATION \/ s = <<"2">> THEN "Information"
         ELSE IF s = sHINT \/ s = <<"3">> THEN "Hint"
         ELSE "Warning"

\* mapSeverityLevel(severity): the numeric level used for sorting
mapSeverityLevel(severity) ==
    IF IsFalsy(severity) THEN 1
    ELSE LET s == toUpperCase(String(severity)) IN
         IF s = sERROR \/ s = <<"0">> THEN 0
         ELSE IF s = sWARN \/ s = sWARNING \/ s = <<"1">> THEN 1
         ELSE IF s = sINFO \/ s = sINFORMATION \/ s = <<"2">> THEN 2
         ELSE IF s = sHINT \/ s = <<"3">> THEN 3
         ELSE 1

\* the chain of keyword tests of categorizeIssue, in source order
CategoryRules ==
    <<
      [category |-> "Spec Compliance",
       keywords |-> <<<<"s","c","h","e","m","a">>,
                      <<"o","a","s","2","-">>,
                      <<"o","a","s","3","-">>>>],
      [category |-> "Documentation",
       keywords |-> <<<<"d","e","s","c","r","i","p","t","i","o","n">>,
                      <<"c","o","n","t","a","c","t">>,
                      <<"l","i","c","e","n","s","e">>,
                      <<"i","n","f","o","-">>>>],
      [category |-> "Structure",
       keywords |-> <<<<"o","p","e","r","a","t","i","o","n","i","d">>,
                      <<"o","p","e","r","a","t","i","o","n","-","t","a","g","s">>,
                      <<"p","a","t","h","-","p","a","r","a","m","s">>>>],
      [category |-> "Security",
       keywords |-> <<<<"s","e","c","u","r","i","t","y">>,
                      <<"e","v","a","l">>,
                      <<"s","c","r","i","p","t">>>>],
      [category |-> "Naming Conventions",
       keywords |-> <<<<"c","a","s","i","n","g">>,
                      <<"n","a","m","i","n","g">>,
                      <<"p","a","t","h","-","k","e","y">>,
                      <<"t","r","a","i","l","i","n","g","-","s","l","a","s","h">>>>],
      [category |-> "Response Design",
       keywords |-> <<<<"r","e","s","p","o","n","s","e">>,
                      <<"s","u","c","c","e","s","s","-","r","e","s","p","o","n","s","e">>>>],
      [category |-> "Server Configuration",
       keywords |-> <<<<"s","e","r","v","e","r">>,
                      <<"h","o","s","t">>,
                      <<"s","c","h","e","m","e">>>>],
      [category |-> "Best Practice",
       keywords |-> <<<<"b","p","-">>,
                      <<"b","e","s","t","-","p","r","a","c","t","i","c","e">>>>]
    >>

RECURSIVE CategorizeFrom(_, _)
CategorizeFrom(code, k) ==
    IF k > Len(CategoryRules) THEN "General"
    ELSE IF \E j \in 1..Len(CategoryRules[k].keywords) :
                includes(code, CategoryRules[k].keywords[j])
         THEN CategoryRules[k].category
         ELSE CategorizeFrom(code, k + 1)

\* the keyword tests applied to the identifier as written
categorizeIssue_CaseSensitive(ruleName) == CategorizeFrom(ruleName, 1)

\* categorizeIssue(ruleName)
categorizeIssue(ruleName) == CategorizeFrom(toLowerCase(ruleName), 1)

\* Map.set / object property assignment: later writes replace earlier ones
MapSet(m, key, value) ==
    [x \in (DOMAIN m) \cup {key} |-> IF x = key THEN value ELSE m[x]]

RECURSIVE SummarizeFrom(_, _, _)
SummarizeFrom(issues, k, categories) ==
    IF k > Len(issues) THEN categories
    ELSE LET issue == issues[k]
             entry == IF issue.category \in DOMAIN categories
                      THEN categories[issue.category]
                      ELSE [count |-> 0, errors |-> 0, warnings |-> 0]
             counted == [count |-> entry.count + 1,
                         errors |-> entry.errors
                                    + (IF issue.severity = "Error" THEN 1 ELSE 0),
                         warnings |-> entry.warnings
                                    + (IF issue.severity = "Warning" THEN 1 ELSE 0)]
         IN SummarizeFrom(issues, k + 1, MapSet(categories, issue.category, counted))

\* every issue that is no Error is counted as a warning of its category
summarizeByCategory_OthersAsWarnings(issues) ==
    LET categories == SummarizeFrom(issues, 1, <<>>)
    IN [c \in DOMAIN categories |->
           [categories[c] EXCEPT !.warnings = categories[c].count - categories[c].errors]]

\* summarizeByCategory(issues): category -> {count, errors, warnings}
summarizeByCategory(issues) == SummarizeFrom(issues, 1, <<>>)

Max(a, b) == IF a >= b THEN a ELSE b

Min(a, b) == IF a <= b THEN a ELSE b

\* the switch with a deduction for the default case
Deduction_HintCounts(severity) ==
    CASE severity = "Error" -> 10
      [] severity = "Warning" -> 3
      [] OTHER -> 1

\* the deduction of one issue in the switch of calculateScore
Deduction(severity) ==
    CASE severity = "Error" -> 10
      [] severity = "Warning" -> 3
      [] severity = "Information" -> 1
      [] OTHER -> 0

RECURSIVE ScoreFrom(_, _, _)
ScoreFrom(issues, k, score) ==
    IF k > Len(issues) THEN score
    ELSE ScoreFrom(issues, k + 1, score - Deduction(issues[k].severity))

\* calculateScore without the lower clamp
calculateScore_NoFloor(issues) == Min(100, ScoreFrom(issues, 1, 100))

\* calculateScore(issues)
calculateScore(issues) == Max(0, Min(100, ScoreFrom(issues, 1, 100)))

\* err.ruleName || err.rule || fallback
RuleNameOr(err, fallback) ==
    IF Has(err, "ruleName") /\ err.ruleName # <<>> THEN err.ruleName
    ELSE IF Has(err, "rule") /\ err.rule # <<>> THEN err.rule
    ELSE fallback

\* err.message || err.description || 'Standardization violation'
MessageOf(err) ==
    IF Has(err, "message") /\ err.message # "" THEN err.message
    ELSE IF Has(err, "description") /\ err.description # "" THEN err.description
    ELSE "Standardization violation"

\* err.line is truthy
HasLine(err) == Has(err, "line") /\ err.line # 0

\* err.pointer || err.path || (err.line ? `line ${err.line}` : '')
PathOf(err) ==
    IF Has(err, "pointer") /\ err.pointer # <<>> THEN err.pointer
    ELSE IF Has(err, "path") /\ err.path # <<>> THEN err.path
    ELSE IF HasLine(err) THEN sLinePrefix \o NumberToString(err.line)
    ELSE <<>>

\* err.character || 1
ColumnOf(err) ==
    IF Has(err, "character") /\ err.character # 0 THEN err.character ELSE 1

RangeOf(err) ==
    IF HasLine(err)
    THEN [startLine |-> err.line, startCol |-> ColumnOf(err),
          endLine |-> err.line, endCol |-> ColumnOf(err)]
    ELSE Null

\* err.severity, undefined when the record has none
SeverityOf(err) == IF Has(err, "severity") THEN err.severity ELSE Null

\* the callback of rawErrors.map: one issue per raw record
NormalizeIssue(err) ==
    [code |-> RuleNameOr(err, sStandardization),
     message |-> MessageOf(err),
     severity |-> mapSeverity(SeverityOf(err)),
     severityLevel |-> mapSeverityLevel(SeverityOf(err)),
     path |-> PathOf(err),
     range |-> RangeOf(err),
     category |-> categorizeIssue(RuleNameOr(err, <<>>))]

\* records without a rule name yield no issue
NormalizeIssues_DropsUnnamed(rawErrors) ==
    LET Named(err) == RuleNameOr(err, <<>>) # <<>>
        named == SelectSeq(rawErrors, Named)
    IN [k \in 1..Len(named) |-> NormalizeIssue(named[k])]

\* rawErrors.map(...): the issues before they are sorted
NormalizeIssues(rawErrors) ==
    [k \in 1..Len(rawErrors) |-> NormalizeIssue(rawErrors[k])]

\* the comparator of issues.sort: (a, b) => a.severityLevel - b.severityLevel
CompareIssues(a, b) == a.severityLevel - b.severityLevel

\* one step of an unstable sort: x goes before the elements equal to it
InsertSorted_Unstable(sorted, x) ==
    LET p == Cardinality({j \in 1..Len(sorted) : CompareIssues(sorted[j], x) < 0})
    IN SubSeq(sorted, 1, p) \o <<x>> \o SubSeq(sorted, p + 1, Len(sorted))

\* one step of the stable sort: x goes after every element not greater than it
InsertSorted(sorted, x) ==
    LET p == Cardinality({j \in 1..Len(sorted) : CompareIssues(sorted[j], x) <= 0})
    IN SubSeq(sorted, 1, p) \o <<x>> \o SubSeq(sorted, p + 1, Len(sorted))

RECURSIVE SortFrom(_, _, _)
SortFrom(arr, k, sorted) ==
    IF k > Len(arr) THEN sorted
    ELSE SortFrom(arr, k + 1, InsertSorted(sorted, arr[k]))

\* Array.prototype.sort with CompareIssues (stable on Node.js 18)
SortIssues(arr) == SortFrom(arr, 1, <<>>)

\* issues.filter((i) => i.severity === label).length
CountSeverity(issues, label) ==
    Len(SelectSeq(issues, LAMBDA i : i.severity = label))

\* standardizationData.errors || standardizationData.result?.errors || []
RawErrorsOf(data) ==
    IF Has(data, "errors") /\ ~IsFalsy(data.errors) THEN data.errors
    ELSE IF Has(data, "result") /\ Has(data.result, "errors")
            /\ ~IsFalsy(data.result.errors)
         THEN data.result.errors
    ELSE Arr(<<>>)

\* the violation list of a payload that carries an array
ErrorList(data) == RawErrorsOf(data).arr

\* the summary with passedValidation taken from the issue count
BuildSummary_PassedIfEmpty(issues) ==
    [totalIssues |-> Len(issues),
     errors |-> CountSeverity(issues, "Error"),
     warnings |-> CountSeverity(issues, "Warning"),
     info |-> CountSeverity(issues, "Information"),
     hints |-> CountSeverity(issues, "Hint"),
     passedValidation |-> Len(issues) = 0,
     categories |-> summarizeByCategory(issues),
     score |-> calculateScore(issues)]

\* the summary object built by validate
BuildSummary(issues) ==
    [totalIssues |-> Len(issues),
     errors |-> CountSeverity(issues, "Error"),
     warnings |-> CountSeverity(issues, "Warning"),
     info |-> CountSeverity(issues, "Information"),
     hints |-> CountSeverity(issues, "Hint"),
     passedValidation |-> CountSeverity(issues, "Error") = 0,
     categories |-> summarizeByCategory(issues),
     score |-> calculateScore(issues)]

\* validate(standardizationData) -> {issues, summary}; rawErrors.map throws
\* a TypeError when rawErrors is not an array
validate(data) ==
    IF ~IsArray(RawErrorsOf(data))
    THEN Threw("rawErrors.map is not a function")
    ELSE LET issues == SortIssues(NormalizeIssues(ErrorList(data)))
         IN [issues |-> issues, summary |-> BuildSummary(issues)]

----------------------------------------------------------------------------
(* ScanHistoryService: the snapshot object.                                *)

\* the scanData object of saveCurrentScan, as JSON.parse returns it later
ScanData(owner, apiName, version, scannedAt, results) ==
    [owner |-> owner,
     apiName |-> apiName,
     version |-> version,
     scannedAt |-> scannedAt,
     summary |-> results.summary,
     issues |-> results.issues]

----------------------------------------------------------------------------
(* DiffEngine.                                                             *)

\* _fingerprint(issue): `${issue.code || ''}::${issue.path || ''}`
_fingerprint(issue) ==
    (IF Has(issue, "code") THEN issue.code ELSE <<>>)
    \o sFingerprintSeparator
    \o (IF Has(issue, "path") THEN issue.path ELSE <<>>)

RECURSIVE FingerprintMapFrom(_, _, _)
FingerprintMapFrom(issues, k, map) ==
    IF k > Len(issues) THEN map
    ELSE FingerprintMapFrom(issues, k + 1,
                            MapSet(map, _fingerprint(issues[k]), issues[k]))

\* the Map built by issues.forEach(... set(fp, issue))
FingerprintMap(issues) == FingerprintMapFrom(issues, 1, <<>>)

\* Map.prototype.has
MapHas(map, key) == key \in DOMAIN map

RECURSIVE NewIssuesFrom(_, _, _, _)
NewIssuesFrom(currIssues, prevFingerprints, k, acc) ==
    IF k > Len(currIssues) THEN acc
    ELSE NewIssuesFrom(currIssues, prevFingerprints, k + 1,
            IF ~MapHas(prevFingerprints, _fingerprint(currIssues[k]))
            THEN Append(acc, currIssues[k]) ELSE acc)

\* new issues read from the Map of the current fingerprints, one for each
NewIssues_OnePerFingerprint(currIssues, prevFingerprints) ==
    SelectSeq(currIssues,
              LAMBDA i : /\ ~MapHas(prevFingerprints, _fingerprint(i))
                         /\ FingerprintMap(currIssues)[_fingerprint(i)] = i)

\* new issues: in current but not in previous
NewIssues(currIssues, prevFingerprints) ==
    NewIssuesFrom(currIssues, prevFingerprints, 1, <<>>)

RECURSIVE ResolvedIssuesFrom(_, _, _, _)
ResolvedIssuesFrom(prevIssues, currFingerprints, k, acc) ==
    IF k > Len(prevIssues) THEN acc
    ELSE ResolvedIssuesFrom(prevIssues, currFingerprints, k + 1,
            IF ~MapHas(currFingerprints, _fingerprint(prevIssues[k]))
            THEN Append(acc, prevIssues[k]) ELSE acc)

\* resolved issues with the test inverted
ResolvedIssues_Inverted(prevIssues, currFingerprints) ==
    SelectSeq(prevIssues, LAMBDA i : MapHas(currFingerprints, _fingerprint(i)))

\* resolved issues: in previous but not in current
ResolvedIssues(prevIssues, currFingerprints) ==
    ResolvedIssuesFrom(prevIssues, currFingerprints, 1, <<>>)

RECURSIVE PersistingIssuesFrom(_, _, _, _)
PersistingIssuesFrom(currIssues, prevFingerprints, k, acc) ==
    IF k > Len(currIssues) THEN acc
    ELSE PersistingIssuesFrom(currIssues, prevFingerprints, k + 1,
            IF MapHas(prevFingerprints, _fingerprint(currIssues[k]))
            THEN Append(acc, currIssues[k]) ELSE acc)

\* persisting issues without the test on the previous fingerprints
PersistingIssues_Unfiltered(currIssues, prevFingerprints) == currIssues

\* persisting issues: in both
PersistingIssues(currIssues, prevFingerprints) ==
    PersistingIssuesFrom(currIssues, prevFingerprints, 1, <<>>)

\* previousScan.issues || []
PrevIssuesOf(scan) == IF Has(scan, "issues") THEN scan.issues ELSE <<>>

\* previousScan.summary || {}
PrevSummaryOf(scan) == IF Has(scan, "summary") THEN scan.summary ELSE <<>>

\* prevSummary.score != null ? prevSummary.score : null
PreviousScoreOf(prevSummary) ==
    IF Has(prevSummary, "score") THEN Num(prevSummary.score) ELSE Null

\* the score change with the operands swapped
ScoreChange_Swapped(currentScore, previousScore) ==
    IF previousScore # Null THEN previousScore.num - currentScore ELSE 0

\* previousScore != null ? currentScore - previousScore : 0
ScoreChange(currentScore, previousScore) ==
    IF previousScore # Null THEN currentScore - previousScore.num ELSE 0

\* prevSummary.<field> || 0
FieldOrZero(prevSummary, field) ==
    IF Has(prevSummary, field) THEN prevSummary[field] ELSE 0

\* the summaryDelta with the warnings taken from the previous errors
SummaryDelta_CopyPaste(currSummary, prevSummary) ==
    [totalIssues |-> currSummary.totalIssues - FieldOrZero(prevSummary, "totalIssues"),
     errors |-> currSummary.errors - FieldOrZero(prevSummary, "errors"),
     warnings |-> currSummary.warnings - FieldOrZero(prevSummary, "errors"),
     info |-> currSummary.info - FieldOrZero(prevSummary, "info")]

\* the summaryDelta object of the non-first-scan branch
SummaryDelta(currSummary, prevSummary) ==
    [totalIssues |-> currSummary.totalIssues - FieldOrZero(prevSummary, "totalIssues"),
     errors |-> currSummary.errors - FieldOrZero(prevSummary, "errors"),
     warnings |-> currSummary.warnings - FieldOrZero(prevSummary, "warnings"),
     info |-> currSummary.info - FieldOrZero(prevSummary, "info")]

\* the first-scan report with the score reported as a change
FirstScanReport_ScoreAsChange(results) ==
    [isFirstScan |-> TRUE,
     previousVersion |-> Null,
     previousScannedAt |-> Null,
     scoreChange |-> results.summary.score,
     previousScore |-> Null,
     currentScore |-> results.summary.score,
     newIssues |-> results.issues,
     resolvedIssues |-> <<>>,
     persistingIssues |-> <<>>,
     summaryDelta |-> [totalIssues |-> 0, errors |-> 0, warnings |-> 0, info |-> 0]]

\* the return value of compare when there is no previous scan
FirstScanReport(results) ==
    [isFirstScan |-> TRUE,
     previousVersion |-> Null,
     previousScannedAt |-> Null,
     scoreChange |-> 0,
     previousScore |-> Null,
     currentScore |-> results.summary.score,
     newIssues |-> <<>>,
     resolvedIssues |-> <<>>,
     persistingIssues |-> <<>>,
     summaryDelta |-> [totalIssues |-> 0, errors |-> 0, warnings |-> 0, info |-> 0]]

\* the return value of compare against a previous scan
IncrementalReport(results, scan) ==
    LET prevIssues == PrevIssuesOf(scan)
        currIssues == results.issues
        prevSummary == PrevSummaryOf(scan)
        currSummary == results.summary
        prevFingerprints == FingerprintMap(prevIssues)
        currFingerprints == FingerprintMap(currIssues)
        previousScore == PreviousScoreOf(prevSummary)
        currentScore == currSummary.score
    IN [isFirstScan |-> FALSE,
        previousVersion |-> IF Has(scan, "version") /\ scan.version # ""
                            THEN Str(scan.version) ELSE Str("unknown"),
        previousScannedAt |-> IF Has(scan, "scannedAt") /\ scan.scannedAt # ""
                              THEN Str(scan.scannedAt) ELSE Null,
        scoreChange |-> ScoreChange(currentScore, previousScore),
        previousScore |-> previousScore,
        currentScore |-> currentScore,
        newIssues |-> NewIssues(currIssues, prevFingerprints),
        resolvedIssues |-> ResolvedIssues(prevIssues, currFingerprints),
        persistingIssues |-> PersistingIssues(currIssues, prevFingerprints),
        summaryDelta |-> SummaryDelta(currSummary, prevSummary)]

\* compare(currentResults, previousScan) -> diff report
compare(results, scan) ==
    IF scan = Null THEN FirstScanReport(results)
    ELSE IncrementalReport(results, scan)

----------------------------------------------------------------------------
(* Inputs: raw violation records of the Standardization API.               *)

rOas3Schema == <<"o","a","s","3","-","s","c","h","e","m","a">>
rInfoContact == <<"i","n","f","o","-","c","o","n","t","a","c","t">>
rOperationDescription == <<"O","p","e","r","a","t","i","o","n","-","D","e","s","c","r","i","p","t","i","o","n">>
pPathsX == <<"/","p","a","t","h","s","/","x">>
pPathsY == <<"/","p","a","t","h","s","/","y">>

\* raw severities: strings in several letter cases, numeric codes, others
SeverityInputs ==
    { Str(<<"E","R","R","O","R">>), Str(<<"e","r","r","o","r">>), Str(<<"E","r","r","o","r">>),
      Str(<<"W","A","R","N">>), Str(<<"w","a","r","n">>), Str(<<"W","a","r","n","i","n","g">>),
      Str(<<"I","N","F","O">>), Str(<<"i","n","f","o">>), Str(<<"I","n","f","o","r","m","a","t","i","o","n">>),
      Str(<<"H","I","N","T">>), Str(<<"h","i","n","t">>),
      Str(<<"0">>), Str(<<"1">>), Str(<<"2">>), Str(<<"3">>),
      Num(0), Num(1), Num(2), Num(3),
      Num(4), Str(<<"C","R","I","T","I","C","A","L">>), Str(<<>>) }

\* records that differ in their raw severity only, and one without severity
SeverityRecords ==
    { [ruleName |-> rOas3Schema, severity |-> sv, pointer |-> pPathsX] :
        sv \in SeverityInputs }
    \cup { [ruleName |-> rOas3Schema, pointer |-> pPathsX] }

\* records of every severity, with the field-name variants of the API
CoreRecords ==
    { [ruleName |-> rOas3Schema, message |-> "m1", severity |-> Str(<<"E","R","R","O","R">>),
       pointer |-> pPathsX],
      [rule |-> rInfoContact, description |-> "d1", severity |-> Str(<<"E","R","R","O","R">>),
       path |-> pPathsY],
      [ruleName |-> rOas3Schema, message |-> "m1", severity |-> Str(<<"W","A","R","N">>),
       pointer |-> pPathsX],
      [rule |-> rInfoContact, description |-> "d1", severity |-> Str(<<"w","a","r","n","i","n","g">>),
       path |-> pPathsY],
      [ruleName |-> rOperationDescription, severity |-> Str(<<"i","n","f","o">>),
       line |-> 12, character |-> 4],
      [message |-> "m2", severity |-> Num(3)] }

\* the violation list of a payload, whichever of the two shapes it has
WithErrors(data, errors) ==
    IF Has(data, "errors") THEN [errors |-> Arr(errors)]
    ELSE [result |-> [errors |-> Arr(errors)]]

EmptyPayloads == { [errors |-> Arr(<<>>)], [result |-> [errors |-> Arr(<<>>)]] }

----------------------------------------------------------------------------
(* Inputs of the diff: current results and previous snapshots.             *)

cA == <<"a">>
cB == <<"b">>
pX == <<"x">>
pY == <<"y">>

DiffRecords ==
    { [ruleName |-> cA, message |-> "m1", severity |-> Str(<<"E","R","R","O","R">>), pointer |-> pX],
      [ruleName |-> cA, message |-> "m2", severity |-> Str(<<"W","A","R","N">>), pointer |-> pX,
       line |-> 3],
      [ruleName |-> cB, message |-> "m1", severity |-> Str(<<"W","A","R","N">>), pointer |-> pY],
      [ruleName |-> cA, message |-> "m1", severity |-> Str(<<"I","N","F","O">>), pointer |-> pY],
      [message |-> "m3", severity |-> Str(<<"E","R","R","O","R">>)] }

RECURSIVE SeqsUpTo(_, _)
\* all sequences over S of length at most n
SeqsUpTo(S, n) ==
    IF n = 0 THEN {<<>>}
    ELSE LET shorter == SeqsUpTo(S, n - 1)
         IN shorter \cup {Append(q, x) : q \in shorter, x \in S}

DiffResults == { validate([errors |-> Arr(q)]) : q \in SeqsUpTo(DiffRecords, MaxDiffRecords) }

\* a record without some of its fields
Without(rec, fields) == [f \in (DOMAIN rec) \ fields |-> rec[f]]

\* the snapshot saveCurrentScan stores for a result
SnapshotOf(results) == ScanData("acme", "petstore", "1.0.0", "t0", results)

\* snapshots as stored, and snapshots that lack what compare defaults
SnapshotVariants(results) ==
    LET snap == SnapshotOf(results)
    IN { snap,
         Without(snap, {"summary"}),
         Without(snap, {"issues", "version"}),
         [snap EXCEPT !.summary = Without(snap.summary, {"score"})],
         [snap EXCEPT !.summary =
             Without(snap.summary, {"totalIssues", "errors", "warnings", "info"})] }

PreviousScans == {Null} \cup UNION { SnapshotVariants(r) : r \in DiffResults }

----------------------------------------------------------------------------
(* Specification of the Validation Engine: validate is called on a payload *)
(* that grows by one violation at a time.                                  *)

\* the handler's locals, with a record of what the invocation met: the
\* invocations that had ended when it arrived, the outcome of its read and the
\* number of snapshots written before it, the object it wrote and its number,
\* and the steps it attempted
RunLocals(pc, event, arrivedAfter) ==
    [pc |-> pc, event |-> event, webhookPayload |-> Null, apiSpec |-> Null,
     validationResults |-> Null, previousScan |-> Null, diff |-> Null,
     pdfBuffer |-> Null, reportUrl |-> Null, response |-> Null,
     arrivedAfter |-> arrivedAfter, read |-> "none", readAt |-> 0,
     saved |-> Null, savedAt |-> 0, steps |-> <<>>]

\* generate has not been called
InitReportIdle ==
    /\ reportData = Null
    /\ pdfDocument = Null

\* the handler invocations, named in the order of their arrival
Invocations == {"i1", "i2"}

\* no invocation has been received
InitHandlerIdle ==
    /\ store = Null
    /\ run = [i \in Invocations |-> RunLocals("idle", Null, {})]
    /\ clock = 0
    /\ InitReportIdle

InitDiffIdle ==
    /\ currentResults = validate([errors |-> Arr(<<>>)])
    /\ previousScan = Null
    /\ diff = Null
    /\ InitHandlerIdle

InitValidate ==
    /\ standardizationData \in EmptyPayloads
    /\ validationResults = validate(standardizationData)
    /\ InitDiffIdle

\* validate runs on the payload extended by the violation err
ValidateWith(err) ==
    /\ standardizationData' =
          WithErrors(standardizationData,
                     Append(ErrorList(standardizationData), err))
    /\ validationResults' = validate(standardizationData')
    /\ UNCHANGED <<diffVars, handlerVars, reportVars>>

\* one more violation is reported
ValidateNext ==
    /\ Len(ErrorList(standardizationData)) < MaxRecords
    /\ \E err \in CoreRecords : ValidateWith(err)

\* the violation reported last is reported once more
ValidateRepeated ==
    /\ Len(ErrorList(standardizationData)) \in 1..(MaxErrors - 1)
    /\ LET errors == ErrorList(standardizationData)
       IN ValidateWith(errors[Len(errors)])

NextValidate == ValidateNext \/ ValidateRepeated

SpecValidate == InitValidate /\ [][NextValidate]_vars

----------------------------------------------------------------------------
(* Specification of the severity mapping: validate is called on payloads   *)
(* whose violations carry every kind of raw severity.                      *)

ValidateSeverity ==
    /\ Len(ErrorList(standardizationData)) < MaxSeverityRecords
    /\ \E err \in SeverityRecords : ValidateWith(err)

NextSeverity == ValidateSeverity

SpecSeverity == InitValidate /\ [][NextSeverity]_vars

----------------------------------------------------------------------------
(* Specification of the Diff Engine: compare is applied to a current       *)
(* result and a previous snapshot (or none).                               *)

InitDiff ==
    /\ standardizationData = [errors |-> Arr(<<>>)]
    /\ validationResults = validate(standardizationData)
    /\ currentResults \in DiffResults
    /\ previousScan \in PreviousScans
    /\ diff = Null
    /\ InitHandlerIdle

Compare ==
    /\ diff = Null
    /\ diff' = compare(currentResults, previousScan)
    /\ UNCHANGED <<currentResults, previousScan, validateVars, handlerVars, reportVars>>

NextDiff == Compare

SpecDiff == InitDiff /\ [][NextDiff]_vars

----------------------------------------------------------------------------
(* Properties of the Diff Engine (checked under SpecDiff).                 *)

\* the elements of a list, as a set
Range(q) == {q[k] : k \in 1..Len(q)}

\* the fingerprints of a list of issues, as a set
Fingerprints(q) == {_fingerprint(q[k]) : k \in 1..Len(q)}

\* compare has run against a previous snapshot
ComparedWithPrevious == diff # Null /\ previousScan # Null

\* C1 as stated: against a non-null previous snapshot, newIssues and
\* persistingIssues together are exactly the current issues,
\* resolvedIssues and persistingIssues together are exactly the
\* previous issues, and newIssues and persistingIssues share no element,
\* all three as sets of issues.
C1_DiffIdentityOnIssues ==
    ComparedWithPrevious =>
        /\ Range(diff.newIssues) \cup Range(diff.persistingIssues)
              = Range(currentResults.issues)
        /\ Range(diff.resolvedIssues) \cup Range(diff.persistingIssues)
              = Range(PrevIssuesOf(previousScan))
        /\ Range(diff.newIssues) \cap Range(diff.persistingIssues) = {}

\* C1 amended: newIssues and persistingIssues partition the current issues
\* (as sets of issues and of fingerprints); resolvedIssues and
\* persistingIssues together cover the previous issues as sets of
\* fingerprints, the persisting entries being the current scan's records.
C1_DiffIdentityOnFingerprints ==
    ComparedWithPrevious =>
        /\ Range(diff.newIssues) \cup Range(diff.persistingIssues)
              = Range(currentResults.issues)
        /\ Range(diff.newIssues) \cap Range(diff.persistingIssues) = {}
        /\ Fingerprints(diff.newIssues) \cap Fingerprints(diff.persistingIssues) = {}
        /\ Fingerprints(diff.resolvedIssues) \cup Fingerprints(diff.persistingIssues)
              = Fingerprints(PrevIssuesOf(previousScan))
        /\ Range(diff.persistingIssues) \subseteq Range(currentResults.issues)
        /\ Range(diff.resolvedIssues) \subseteq Range(PrevIssuesOf(previousScan))

\* a diff with new, resolved and persisting issues, where a persisting
\* issue is not the record the previous snapshot holds
C1_Witness ==
    /\ ComparedWithPrevious
    /\ diff.newIssues # <<>>
    /\ diff.resolvedIssues # <<>>
    /\ diff.persistingIssues # <<>>
    /\ ~(Range(diff.persistingIssues) \subseteq Range(PrevIssuesOf(previousScan)))

\* C2: against a non-null previous snapshot, newIssues is the current list
\* restricted to the fingerprints absent from the previous issues,
\* persistingIssues the current list restricted to the fingerprints
\* present in them, and resolvedIssues the previous list restricted to the
\* fingerprints absent from the current issues, each in list order.
C2_ListsByFingerprint ==
    ComparedWithPrevious =>
        LET curr == currentResults.issues
            prev == PrevIssuesOf(previousScan)
        IN /\ diff.newIssues =
                SelectSeq(curr, LAMBDA i : _fingerprint(i) \notin Fingerprints(prev))
           /\ diff.persistingIssues =
                SelectSeq(curr, LAMBDA i : _fingerprint(i) \in Fingerprints(prev))
           /\ diff.resolvedIssues =
                SelectSeq(prev, LAMBDA i : _fingerprint(i) \notin Fingerprints(curr))

\* two current and two previous issues, one of each kept and one dropped
C2_Witness ==
    /\ ComparedWithPrevious
    /\ Len(currentResults.issues) = 2
    /\ Len(PrevIssuesOf(previousScan)) = 2
    /\ Len(diff.newIssues) = 1
    /\ Len(diff.persistingIssues) = 1
    /\ Len(diff.resolvedIssues) = 1

\* C3: without a previous snapshot compare reports a first scan: score
\* change 0, no previous score, three empty lists, an all-zero delta.
C3_FirstScan ==
    (diff # Null /\ previousScan = Null) =>
        /\ diff.isFirstScan = TRUE
        /\ diff.scoreChange = 0
        /\ diff.previousScore = Null
        /\ diff.newIssues = <<>>
        /\ diff.resolvedIssues = <<>>
        /\ diff.persistingIssues = <<>>
        /\ \A f \in DOMAIN diff.summaryDelta : diff.summaryDelta[f] = 0
        /\ DOMAIN diff.summaryDelta = {"totalIssues", "errors", "warnings", "info"}

\* a first scan of a result that has issues and a score below 100
C3_Witness ==
    /\ diff # Null
    /\ previousScan = Null
    /\ Len(currentResults.issues) = 2
    /\ currentResults.summary.score < 100

\* Number(v) of a nullable number: null converts to 0
NumberOf(v) == IF v = Null THEN 0 ELSE v.num

\* C4 as stated: against every non-null previous snapshot, also one
\* without summary or score, scoreChange is currentScore - previousScore.
C4_ScoreDeltaAlways ==
    ComparedWithPrevious =>
        diff.scoreChange = diff.currentScore - NumberOf(diff.previousScore)

\* C4 amended: when the previous snapshot's summary has a score,
\* scoreChange is the current score minus that score; when the summary or
\* its score is missing, previousScore is null and scoreChange is 0.
C4_ScoreDeltaWhenScored ==
    ComparedWithPrevious =>
        IF Has(previousScan, "summary") /\ Has(previousScan.summary, "score")
        THEN /\ diff.previousScore = Num(previousScan.summary.score)
             /\ diff.currentScore = currentResults.summary.score
             /\ diff.scoreChange =
                   currentResults.summary.score - previousScan.summary.score
        ELSE /\ diff.previousScore = Null
             /\ diff.scoreChange = 0

\* a diff against a snapshot with a higher score than the current one
C4_Witness ==
    /\ ComparedWithPrevious
    /\ Has(previousScan, "summary")
    /\ Has(previousScan.summary, "score")
    /\ previousScan.summary.score > currentResults.summary.score
    /\ diff.scoreChange < 0

\* C5: against a non-null previous snapshot each field of summaryDelta is
\* the current summary's field minus the previous summary's field, a field
\* absent from the previous summary counting as 0.
C5_SummaryDelta ==
    ComparedWithPrevious =>
        /\ DOMAIN diff.summaryDelta = {"totalIssues", "errors", "warnings", "info"}
        /\ \A f \in {"totalIssues", "errors", "warnings", "info"} :
              LET prev == IF Has(previousScan, "summary") /\ Has(previousScan.summary, f)
                          THEN previousScan.summary[f] ELSE 0
              IN diff.summaryDelta[f] = currentResults.summary[f] - prev

\* a diff whose previous summary has warnings and whose current one has
\* errors, so that the deltas differ in sign
C5_Witness ==
    /\ ComparedWithPrevious
    /\ Has(previousScan, "summary")
    /\ Has(previousScan.summary, "warnings")
    /\ diff.summaryDelta.warnings < 0
    /\ diff.summaryDelta.errors > 0

----------------------------------------------------------------------------
(* Properties of the Validation Engine (checked under SpecValidate and     *)
(* SpecSeverity).                                                          *)

\* an issue of the given severity, as validate produces it
ProbeIssue(label) ==
    [code |-> sStandardization,
     message |-> "Standardization violation",
     severity |-> label,
     severityLevel |-> CHOOSE k \in 0..3 : SeverityLabels[k + 1] = label,
     path |-> <<>>,
     range |-> Null,
     category |-> "General"]

\* the list q with x inserted after its first pos elements
InsertAt(q, pos, x) == SubSeq(q, 1, pos) \o <<x>> \o SubSeq(q, pos + 1, Len(q))

\* the number of issues of a severity
SeverityCount(q, label) == Cardinality({k \in 1..Len(q) : q[k].severity = label})

\* C6: the score lies in [0,100], and one more Error, Warning or
\* Information issue, wherever it is added, never increases it.
C6_ScoreRangeAndMonotone ==
    LET issues == validationResults.issues IN
    /\ validationResults.summary.score \in 0..100
    /\ calculateScore(issues) \in 0..100
    /\ \A label \in {"Error", "Warning", "Information"} :
         \A pos \in 0..Len(issues) :
            calculateScore(InsertAt(issues, pos, ProbeIssue(label)))
               <= calculateScore(issues)

\* more errors than the score can pay for: the lower clamp acts
C6_Witness ==
    /\ validationResults.summary.errors >= 11
    /\ validationResults.summary.score = 0

\* C7: the score is max(0, min(100, 100 - 10*E - 3*W - I)) whatever the
\* number of Hints, and every permutation of the list has the same score.
C7_ScoreFormula ==
    LET issues == validationResults.issues
        n == Len(issues)
        E == SeverityCount(issues, "Error")
        W == SeverityCount(issues, "Warning")
        I == SeverityCount(issues, "Information")
    IN /\ validationResults.summary.score
             = Max(0, Min(100, 100 - 10 * E - 3 * W - I))
       /\ calculateScore(NormalizeIssues(ErrorList(standardizationData)))
             = validationResults.summary.score
       /\ n <= MaxPermLen =>
             \A perm \in Permutations(1..n) :
                calculateScore([k \in 1..n |-> issues[perm[k]]])
                   = validationResults.summary.score

\* a list of three severities, a Hint among them, short enough to permute
C7_Witness ==
    /\ validationResults.summary.hints >= 1
    /\ validationResults.summary.errors >= 1
    /\ validationResults.summary.warnings >= 1
    /\ validationResults.summary.totalIssues <= MaxPermLen
    /\ validationResults.summary.score = 87

\* C8: passedValidation is true exactly when the error count is 0.
C8_PassedIffNoErrors ==
    validationResults.summary.passedValidation
        <=> (validationResults.summary.errors = 0)

\* a summary that passes although it has issues
C8_Witness ==
    /\ validationResults.summary.passedValidation
    /\ validationResults.summary.warnings >= 1
    /\ validationResults.summary.info >= 1

\* the label the severity table assigns to a raw record
ClaimedSeverity(err) ==
    IF ~Has(err, "severity") THEN "Warning"
    ELSE LET t == toLowerCase(String(err.severity)) IN
         IF t \in {<<"e","r","r","o","r">>, <<"0">>} THEN "Error"
         ELSE IF t \in {<<"w","a","r","n">>, <<"w","a","r","n","i","n","g">>, <<"1">>} THEN "Warning"
         ELSE IF t \in {<<"i","n","f","o">>, <<"i","n","f","o","r","m","a","t","i","o","n">>, <<"2">>} THEN "Information"
         ELSE IF t \in {<<"h","i","n","t">>, <<"3">>} THEN "Hint"
         ELSE "Warning"

\* C9: every raw severity, a string in any letter case or a numeric code,
\* is mapped by the table ERROR|0, WARN|WARNING|1, INFO|INFORMATION|2,
\* HINT|3, and to Warning when missing or unrecognized.
C9_SeverityTable ==
    LET rawErrors == ErrorList(standardizationData) IN
    \A k \in 1..Len(rawErrors) :
        NormalizeIssues(rawErrors)[k].severity = ClaimedSeverity(rawErrors[k])

\* severity ordinal: Error, Warning, Information, Hint
Ordinal(label) == CHOOSE k \in 1..4 : SeverityLabels[k] = label

\* C10: the issues returned by validate are in ascending severity ordinal,
\* and issues of equal severity are in the order of their raw records.
C10_SortedAndStable ==
    LET unsorted == NormalizeIssues(ErrorList(standardizationData))
        issues == validationResults.issues
    IN /\ \A i, j \in 1..Len(issues) :
             i < j => Ordinal(issues[i].severity) <= Ordinal(issues[j].severity)
       /\ issues = SelectSeq(unsorted, LAMBDA x : x.severity = "Error")
                   \o SelectSeq(unsorted, LAMBDA x : x.severity = "Warning")
                   \o SelectSeq(unsorted, LAMBDA x : x.severity = "Information")
                   \o SelectSeq(unsorted, LAMBDA x : x.severity = "Hint")

\* the sort moved an issue, and two different issues of one severity kept
\* their input order
C10_Witness ==
    LET unsorted == NormalizeIssues(ErrorList(standardizationData))
        issues == validationResults.issues
    IN /\ issues # unsorted
       /\ \E i, j \in 1..Len(issues) :
             /\ i < j
             /\ issues[i].severity = issues[j].severity
             /\ issues[i] # issues[j]
             /\ \E a, b \in 1..Len(unsorted) :
                   a < b /\ unsorted[a] = issues[i] /\ unsorted[b] = issues[j]

----------------------------------------------------------------------------
(* Specification of the categorization: validate is called on payloads     *)
(* whose violations carry rule identifiers of every category, in several   *)
(* letter cases, some of them matching the keywords of several rules.      *)

RuleIdentifiers ==
    { <<"o","a","s","3","-","s","c","h","e","m","a">>,
      <<"O","A","S","2","-","a","p","i","-","h","o","s","t">>,
      <<"o","a","s","3","-","a","p","i","-","s","e","r","v","e","r","s">>,
      <<"i","n","f","o","-","c","o","n","t","a","c","t">>,
      <<"I","n","f","o","-","L","i","c","e","n","s","e">>,
      <<"r","e","s","p","o","n","s","e","-","d","e","s","c","r","i","p","t","i","o","n">>,
      <<"o","p","e","r","a","t","i","o","n","-","o","p","e","r","a","t","i","o","n","I","d">>,
      <<"o","p","e","r","a","t","i","o","n","-","t","a","g","s">>,
      <<"n","o","-","e","v","a","l","-","i","n","-","m","a","r","k","d","o","w","n">>,
      <<"s","e","c","u","r","i","t","y","-","d","e","f","i","n","e","d">>,
      <<"s","e","r","v","e","r","-","n","a","m","i","n","g">>,
      <<"p","a","t","h","-","k","e","y","s","-","n","o","-","t","r","a","i","l","i","n","g","-","s","l","a","s","h">>,
      <<"o","p","e","r","a","t","i","o","n","-","s","u","c","c","e","s","s","-","r","e","s","p","o","n","s","e">>,
      <<"h","o","s","t","-","s","c","h","e","m","e">>,
      <<"B","P","-","p","a","g","i","n","a","t","i","o","n">>,
      <<"b","e","s","t","-","p","r","a","c","t","i","c","e","-","v","e","r","s","i","o","n","i","n","g">>,
      <<"c","u","s","t","o","m","-","r","u","l","e">>,
      <<"s","c","h","e","m">>,
      <<"s","t","a","n","d","a","r","d","i","z","a","t","i","o","n">>,
      <<>> }

\* records that carry a rule identifier only, under either field name
RuleRecords ==
    { [ruleName |-> id] : id \in RuleIdentifiers }
    \cup { [rule |-> id] : id \in {<<"s","e","r","v","e","r","-","n","a","m","i","n","g">>, <<>>} }

ValidateRule ==
    /\ Len(ErrorList(standardizationData)) < MaxRuleNames
    /\ \E err \in RuleRecords : ValidateWith(err)

NextCategory == ValidateRule

SpecCategory == InitValidate /\ [][NextCategory]_vars

----------------------------------------------------------------------------
(* Properties of the categorization (checked under SpecCategory).          *)

\* the categories in the order the rules are tried
CategoryOrder ==
    <<"Spec Compliance", "Documentation", "Structure", "Security",
      "Naming Conventions", "Response Design", "Server Configuration",
      "Best Practice">>

\* the keywords of a category
KeywordsOf(category) ==
    LET rule == CHOOSE r \in Range(CategoryRules) : r.category = category
    IN Range(rule.keywords)

\* a keyword of the category is a case-insensitive substring of the identifier
Matches(id, category) ==
    \E kw \in KeywordsOf(category) : includes(toUpperCase(id), toUpperCase(kw))

\* the identifier a raw record is categorized by
IdentifierOf(err) ==
    IF Has(err, "ruleName") /\ err.ruleName # <<>> THEN err.ruleName
    ELSE IF Has(err, "rule") THEN err.rule
    ELSE <<>>

\* C11: every rule identifier gets exactly one category: that of the first
\* rule, in the order Spec Compliance, Documentation, Structure, Security,
\* Naming Conventions, Response Design, Server Configuration, Best Practice,
\* one of whose keywords is a case-insensitive substring of the identifier,
\* and General when no rule matches.
C11_FirstMatchingCategory ==
    \A err \in Range(ErrorList(standardizationData)) :
        LET id == IdentifierOf(err)
            category == categorizeIssue(id)
            hits == { k \in 1..Len(CategoryOrder) : Matches(id, CategoryOrder[k]) }
        IN /\ category \in Range(CategoryOrder) \cup {"General"}
           /\ hits = {} => category = "General"
           /\ hits # {} =>
                 category = CategoryOrder[CHOOSE k \in hits : \A j \in hits : k <= j]
           /\ \E issue \in Range(validationResults.issues) :
                 /\ issue.category = category
                 /\ issue.code = RuleNameOr(err, sStandardization)

\* an identifier in capitals that matches the keywords of two rules has been
\* categorized together with one that matches none
C11_Witness ==
    /\ Len(validationResults.issues) = 2
    /\ \E a, b \in Range(ErrorList(standardizationData)) :
          /\ IdentifierOf(a) = <<"O","A","S","2","-","a","p","i","-","h","o","s","t">>
          /\ categorizeIssue(IdentifierOf(a)) = "Spec Compliance"
          /\ Matches(IdentifierOf(a), "Server Configuration")
          /\ categorizeIssue(IdentifierOf(b)) = "General"
          /\ IdentifierOf(b) # <<>>

----------------------------------------------------------------------------
(* Specification of issue identity across two scans: the previous scan     *)
(* reported one violation, the current scan reports a violation of the     *)
(* same rule at the same location path whose message, line or column may   *)
(* have drifted; compare is applied to the two.                            *)

\* the location fields of a raw record: a pointer, a path, or neither
LocationVariants == { [pointer |-> pX], [path |-> pY], <<>> }

\* the position fields of a raw record: line and character, line only, none
PositionVariants ==
    { [line |-> l, character |-> c] : l \in {3, 7}, c \in {4, 9} }
    \cup { [line |-> l] : l \in {3, 7} }
    \cup { <<>> }

\* the record with the fields of both
Merge(a, b) ==
    [f \in (DOMAIN a) \cup (DOMAIN b) |-> IF f \in DOMAIN a THEN a[f] ELSE b[f]]

\* raw records of one rule at one location
IdentityRecordsAt(ruleName, location) ==
    { Merge([ruleName |-> ruleName, message |-> m,
             severity |-> Str(<<"E","R","R","O","R">>)],
            Merge(location, position)) :
        m \in {"m1", "m2"}, position \in PositionVariants }

InitIdentity ==
    \E ruleName \in {cA, cB}, location \in LocationVariants :
        \E before, after \in IdentityRecordsAt(ruleName, location) :
            /\ standardizationData = [errors |-> Arr(<<after>>)]
            /\ validationResults = validate(standardizationData)
            /\ currentResults = validationResults
            /\ previousScan = SnapshotOf(validate([errors |-> Arr(<<before>>)]))
            /\ diff = Null
            /\ InitHandlerIdle

NextIdentity == Compare

SpecIdentity == InitIdentity /\ [][NextIdentity]_vars

----------------------------------------------------------------------------
(* Properties of issue identity (checked under SpecIdentity).              *)

\* the value of a field, Null when the record has none
FieldOf(err, field) == IF Has(err, field) THEN Str(err[field]) ELSE Null

\* two raw records with the same rule name and the same location path
SameRuleAndPath(a, b) ==
    /\ FieldOf(a, "ruleName") = FieldOf(b, "ruleName")
    /\ FieldOf(a, "pointer") = FieldOf(b, "pointer")
    /\ FieldOf(a, "path") = FieldOf(b, "path")

\* every raw record the previous snapshot can have come from
RawRecordsOf(scan) ==
    { before \in UNION { IdentityRecordsAt(ruleName, location) :
                            ruleName \in {cA, cB}, location \in LocationVariants } :
        scan = SnapshotOf(validate([errors |-> Arr(<<before>>)])) }

\* C12: for two raw records with the same rule name and the same location
\* path that differ only in message or in line/column, the normalized issues
\* have the same fingerprint, and compare reports the current one as
\* persisting and none of them as new or resolved.
C12_IdentityIgnoresDrift ==
    diff # Null =>
        \A before \in RawRecordsOf(previousScan) :
            LET after == ErrorList(standardizationData)[1]
                issueBefore == previousScan.issues[1]
                issueAfter == currentResults.issues[1]
            IN SameRuleAndPath(before, after) =>
                 /\ _fingerprint(issueBefore) = _fingerprint(issueAfter)
                 /\ diff.persistingIssues = <<issueAfter>>
                 /\ diff.newIssues = <<>>
                 /\ diff.resolvedIssues = <<>>

----------------------------------------------------------------------------
(* Specification of validate on payloads of any shape: the violation list  *)
(* is an array, or a value of another type, under errors, under            *)
(* result.errors, or under both.                                           *)

\* values that are not arrays
NonArrayValues ==
    { Null, Bool(FALSE), Bool(TRUE), Num(0), Num(5), Str(<<>>), Str(<<"x">>),
      Object("{}") }

ArrayValues ==
    { Arr(<<>>),
      Arr(<<[ruleName |-> rOas3Schema, severity |-> Str(<<"E","R","R","O","R">>),
             pointer |-> pPathsX]>>),
      Arr(<<[rule |-> rInfoContact, severity |-> Str(<<"W","A","R","N">>)],
            [ruleName |-> rOas3Schema, severity |-> Str(<<"E","R","R","O","R">>),
             pointer |-> pPathsX]>>) }

PayloadValues == NonArrayValues \cup ArrayValues

Payloads ==
    { [errors |-> v] : v \in PayloadValues }
    \cup { [result |-> [errors |-> v]] : v \in PayloadValues }
    \cup { [errors |-> v, result |-> [errors |-> w]] : v, w \in PayloadValues }

InitPayload ==
    /\ standardizationData \in Payloads
    /\ validationResults = Null
    /\ InitDiffIdle

\* validate runs on the payload
ValidatePayload ==
    /\ validationResults = Null
    /\ validationResults' = validate(standardizationData)
    /\ UNCHANGED <<standardizationData, diffVars, handlerVars, reportVars>>

NextPayload == ValidatePayload

SpecPayload == InitPayload /\ [][NextPayload]_vars

----------------------------------------------------------------------------
(* Properties of validate on payloads of any shape (checked under          *)
(* SpecPayload).                                                           *)

\* the payload carries a violation list, and no list it carries is a sequence
NoSequenceHanded(data) ==
    /\ Has(data, "errors") => ~IsArray(data.errors)
    /\ Has(data, "result") => ~IsArray(data.result.errors)

\* C13: when the violation list handed to normalization is not a sequence,
\* validate fails with a fatal error and returns no issues and no summary.
C13_NonSequenceIsFatal ==
    (validationResults # Null /\ NoSequenceHanded(standardizationData)) =>
        /\ ~Returned(validationResults)
        /\ ~Has(validationResults, "issues")
        /\ ~Has(validationResults, "summary")

----------------------------------------------------------------------------
(* Specification of field defaulting: validate is called on payloads whose *)
(* records lack fields, carry them empty, or carry values the mappings do  *)
(* not recognize.                                                          *)

\* the rule name: given, given as rule, empty, missing
NameVariants ==
    { [ruleName |-> rOas3Schema], [rule |-> rInfoContact],
      [ruleName |-> <<>>], <<>> }

\* the location: an empty pointer beside a path, a line only, a line of 0
PlaceVariants ==
    { [pointer |-> <<>>, path |-> pPathsY], [line |-> 12], [line |-> 0] }

\* message and severity: an empty message beside a description and no
\* severity; no message and an unknown severity
TextVariants ==
    { [message |-> "", description |-> "d1"],
      [severity |-> Str(<<"C","R","I","T","I","C","A","L">>)] }

DefaultingRecords ==
    { Merge(name, Merge(place, text)) :
        name \in NameVariants, place \in PlaceVariants, text \in TextVariants }

ValidateDefaulting ==
    /\ Len(ErrorList(standardizationData)) < MaxDefaultingRecords
    /\ \E err \in DefaultingRecords : ValidateWith(err)

NextDefaults == ValidateDefaulting

SpecDefaults == InitValidate /\ [][NextDefaults]_vars

----------------------------------------------------------------------------
(* Properties of field defaulting (checked under SpecDefaults).            *)

\* the record has the rule or location field, and the field is not empty
Carries(err, field) == Has(err, field) /\ Len(err[field]) > 0

\* the record has the message field, and the field is not empty
CarriesText(err, field) == Has(err, field) /\ err[field] # ""

\* the issue is the one the raw record is due: the fields the record
\* carries, and a default for every field it lacks
IssueFor(err, issue) ==
    /\ {"code", "message", "severity", "path", "category"} \subseteq DOMAIN issue
    /\ issue.code = (IF Carries(err, "ruleName") THEN err.ruleName
                     ELSE IF Carries(err, "rule") THEN err.rule
                     ELSE sStandardization)
    /\ issue.message = (IF CarriesText(err, "message") THEN err.message
                        ELSE IF CarriesText(err, "description") THEN err.description
                        ELSE "Standardization violation")
    /\ issue.severity \in Range(SeverityLabels)
    /\ ~Has(err, "severity") => issue.severity = "Warning"
    /\ issue.path = (IF Carries(err, "pointer") THEN err.pointer
                     ELSE IF Carries(err, "path") THEN err.path
                     ELSE IF Has(err, "line") /\ err.line > 0
                          THEN sLinePrefix \o NumberToString(err.line)
                     ELSE <<>>)
    /\ issue.category \in Range(CategoryOrder) \cup {"General"}
    /\ (~Carries(err, "ruleName") /\ ~Carries(err, "rule")) =>
          issue.category = "General"

\* the one-to-one assignments of n raw records to n issues
Pairings(n) ==
    { f \in [1..n -> 1..n] : \A j, k \in 1..n : f[j] = f[k] => j = k }

----------------------------------------------------------------------------
(* The Lambda handler and the services it calls.                           *)

\* a well-formed JSON text of a value
JSONstringify(value) == [json |-> value]

\* JSON.parse: the value of a well-formed text, a SyntaxError otherwise
JSONparse(text) ==
    IF Has(text, "json") THEN text.json
    ELSE Threw("Unexpected token in JSON")

\* body[field], '' when the body has no such field
BodyField(body, field) == IF Has(body, field) THEN body[field] ELSE ""

\* a || b for strings
OrElse(a, b) == IF a # "" THEN a ELSE b

\* only the owner is required of the payload
parseWebhookEvent_OwnerOnly(event) ==
    LET body == IF Has(event, "body") THEN JSONparse(event.body) ELSE event
    IN IF ~Returned(body) THEN body
       ELSE LET email == OrElse(BodyField(body, "notifyEmail"), BodyField(body, "email"))
                payload ==
                  [owner |-> OrElse(BodyField(body, "owner"),
                                    BodyField(body, "organization")),
                   apiName |-> OrElse(BodyField(body, "apiName"),
                                      OrElse(BodyField(body, "api"),
                                             BodyField(body, "name"))),
                   version |-> OrElse(BodyField(body, "version"),
                                      OrElse(BodyField(body, "apiVersion"), "latest")),
                   notifyEmail |-> IF email # "" THEN [email |-> email] ELSE Null,
                   action |-> OrElse(BodyField(body, "action"),
                                     OrElse(BodyField(body, "event"), "API_UPDATED"))]
            IN IF payload.owner = ""
               THEN Threw("Invalid webhook payload: missing owner or apiName")
               ELSE payload

\* parseWebhookEvent(event): the payload, or the error thrown
parseWebhookEvent(event) ==
    LET body == IF Has(event, "body") THEN JSONparse(event.body) ELSE event
    IN IF ~Returned(body) THEN body
       ELSE LET email == OrElse(BodyField(body, "notifyEmail"), BodyField(body, "email"))
                payload ==
                  [owner |-> OrElse(BodyField(body, "owner"),
                                    BodyField(body, "organization")),
                   apiName |-> OrElse(BodyField(body, "apiName"),
                                      OrElse(BodyField(body, "api"),
                                             BodyField(body, "name"))),
                   version |-> OrElse(BodyField(body, "version"),
                                      OrElse(BodyField(body, "apiVersion"), "latest")),
                   notifyEmail |-> IF email # "" THEN [email |-> email] ELSE Null,
                   action |-> OrElse(BodyField(body, "action"),
                                     OrElse(BodyField(body, "event"), "API_UPDATED"))]
            IN IF payload.owner = "" \/ payload.apiName = ""
               THEN Threw("Invalid webhook payload: missing owner or apiName")
               ELSE payload

\* no object is ever found
getPreviousScan_NeverFound(object, requestFails) == Null

\* ScanHistoryService.getPreviousScan: the parsed object; null when there is
\* none, when the request fails, and when the object is no JSON
getPreviousScan(object, requestFails) ==
    IF requestFails \/ object = Null THEN Null
    ELSE IF Returned(JSONparse(object)) THEN JSONparse(object)
    ELSE Null

\* new Date().toISOString() at the n-th snapshot written
ISOStrings == <<"t1", "t2", "t3", "t4", "t5", "t6">>

\* ScanHistoryService.saveCurrentScan: the object put under the history key
saveCurrentScan(webhookPayload, results, now) ==
    JSONstringify(ScanData(webhookPayload.owner, webhookPayload.apiName,
                           webhookPayload.version, now, results))

\* a stored snapshot whose issues are no array: {"issues": 5}
NonIterableSnapshot == [issues |-> Num(5)]

\* diffEngine.compare as the handler calls it: a TypeError for a snapshot
\* whose issues have no forEach
TryCompare(results, scan) ==
    IF scan # Null /\ scan = NonIterableSnapshot
    THEN Threw("prevIssues.forEach is not a function")
    ELSE compare(results, scan)

\* the document reportGenerator.generate returns: what it was given
GeneratedPdf(webhookPayload, results, diffReport) ==
    [apiName |-> webhookPayload.apiName, apiVersion |-> webhookPayload.version,
     score |-> results.summary.score, diff |-> diffReport]

\* the key the report is uploaded under, as the presigned URL names it
ReportUrl(webhookPayload) ==
    [reports |-> <<webhookPayload.owner, webhookPayload.apiName,
                   webhookPayload.version>>]

\* the locals with one more attempted step
Attempted(r, step) == [r EXCEPT !.steps = Append(@, [step |-> step])]

\* the locals with one more attempted step, which failed
AttemptFailed(r, step, message) ==
    [r EXCEPT !.steps = Append(@, [step |-> step, error |-> message])]

\* the 500 response carries the report reference obtained so far
Caught_KeepsReportUrl(r, message) ==
    [r EXCEPT !.pc = "done",
              !.response =
                 [statusCode |-> 500,
                  body |-> JSONstringify(
                      [message |-> "Error processing validation request",
                       error |-> message,
                       reportUrl |-> r.reportUrl])]]

\* the catch block of the handler: the 500 response
Caught(r, message) ==
    [r EXCEPT !.pc = "done",
              !.response =
                 [statusCode |-> 500,
                  body |-> JSONstringify(
                      [message |-> "Error processing validation request",
                       error |-> message])]]

\* the return statement of the handler: the 200 response
Delivered(r) ==
    [r EXCEPT !.pc = "done",
              !.response =
                 [statusCode |-> 200,
                  body |-> JSONstringify(
                      [message |-> "Validation report generated and delivered",
                       reportUrl |-> r.reportUrl,
                       summary |-> r.validationResults.summary])]]

----------------------------------------------------------------------------
(* Inputs of the handler: webhook events and upstream documents.           *)

WebhookEvents ==
    { [body |-> JSONstringify([owner |-> "acme", apiName |-> "petstore",
                               version |-> "1.0.0"])],
      [body |-> JSONstringify([organization |-> "acme", api |-> "petstore",
                               email |-> "dev@acme.io"])],
      [body |-> JSONstringify([owner |-> "acme", version |-> "1.0.0"])],
      [body |-> [text |-> "owner=acme"]],
      [owner |-> "acme", name |-> "petstore", apiVersion |-> "1.0.0"] }

\* what the upstream request returns: an OpenAPI document, a document with a
\* violation list, a document whose errors are no list
FetchedDocuments ==
    { [openapi |-> "3.0.0"],
      [errors |-> Arr(<<[ruleName |-> cA, message |-> "m1",
                         severity |-> Str(<<"E","R","R","O","R">>), pointer |-> pX]>>)],
      [errors |-> Str(<<"x">>)] }

InitialStores == { Null, JSONstringify(NonIterableSnapshot) }

----------------------------------------------------------------------------
(* Specification of the handler: invocations for one (owner, apiName),     *)
(* each running the steps of the handler in turn, any two of them          *)
(* interleaved at their awaits; every external call may fail.              *)

\* the snapshot is saved once the report has been generated
Sequel_SaveAfterGenerate ==
    [parse |-> "fetch", fetch |-> "validate", validate |-> "diff",
     diff |-> "generate", generate |-> "save", save |-> "upload",
     upload |-> "email", email |-> "metrics", metrics |-> "done"]

\* the step that follows each step of the try block, in statement order
Sequel ==
    [parse |-> "fetch", fetch |-> "validate", validate |-> "diff",
     diff |-> "save", save |-> "generate", generate |-> "upload",
     upload |-> "email", email |-> "metrics", metrics |-> "done"]

\* the locals of invocation i become r
Becomes(i, r) == run' = [run EXCEPT ![i] = r]

\* the locals move on to the step after the one named
Onward(r, step) == [r EXCEPT !.pc = Sequel[step]]

InitHandler ==
    /\ standardizationData = [errors |-> Arr(<<>>)]
    /\ validationResults = validate(standardizationData)
    /\ currentResults = validationResults
    /\ previousScan = Null
    /\ diff = Null
    /\ store \in InitialStores
    /\ run = [i \in Invocations |-> RunLocals("idle", Null, {})]
    /\ clock = 0
    /\ InitReportIdle

\* 1. an event of the set arrives and parseWebhookEvent runs
ParseWebhookFrom(i, events) ==
    /\ run[i].pc = "idle"
    /\ i = "i2" => run["i1"].pc # "idle"
    /\ \E event \in events :
          LET r == RunLocals("parse", event,
                             {j \in Invocations : run[j].pc = "done"})
              payload == parseWebhookEvent(event)
          IN IF Returned(payload)
             THEN Becomes(i, Onward([Attempted(r, "parse") EXCEPT
                                        !.webhookPayload = payload], "parse"))
             ELSE Becomes(i, Caught(AttemptFailed(r, "parse", payload.threw),
                                    payload.threw))
    /\ UNCHANGED <<engineVars, reportVars, store, clock>>

\* 1. the event arrives and parseWebhookEvent runs
ParseWebhook(i) == ParseWebhookFrom(i, WebhookEvents)

\* 2. swaggerHubClient.fetchApiSpec
FetchSpec(i) ==
    /\ run[i].pc = "fetch"
    /\ \/ \E document \in FetchedDocuments :
             Becomes(i, Onward([Attempted(run[i], "fetch") EXCEPT
                                   !.apiSpec = document], "fetch"))
       \/ Becomes(i, Caught(AttemptFailed(run[i], "fetch",
                                          "Failed to connect to SwaggerHub: timeout"),
                            "Failed to connect to SwaggerHub: timeout"))
    /\ UNCHANGED <<engineVars, reportVars, store, clock>>

\* 3. validationEngine.validate(apiSpec)
Validate(i) ==
    /\ run[i].pc = "validate"
    /\ LET results == validate(run[i].apiSpec)
       IN IF Returned(results)
          THEN Becomes(i, Onward([Attempted(run[i], "validate") EXCEPT
                                     !.validationResults = results], "validate"))
          ELSE Becomes(i, Caught(AttemptFailed(run[i], "validate", results.threw),
                                 results.threw))
    /\ UNCHANGED <<engineVars, reportVars, store, clock>>

\* 3b. getPreviousScan and compare, in one try; a failure leaves diff null
CompareWithPrevious(i) ==
    /\ run[i].pc = "diff"
    /\ \E requestFails \in BOOLEAN :
          LET scan == getPreviousScan(store, requestFails)
              report == TryCompare(run[i].validationResults, scan)
              readStep == IF requestFails
                          THEN AttemptFailed(run[i], "read", "S3 request failed")
                          ELSE Attempted(run[i], "read")
              diffStep == IF Returned(report)
                          THEN Attempted(readStep, "diff")
                          ELSE AttemptFailed(readStep, "diff", report.threw)
          IN Becomes(i, Onward([diffStep EXCEPT
                                   !.previousScan = scan,
                                   !.read = IF requestFails THEN "failed"
                                            ELSE IF store = Null THEN "absent"
                                            ELSE "found",
                                   !.readAt = clock,
                                   !.diff = IF Returned(report) THEN report
                                            ELSE Null], "diff"))
    /\ UNCHANGED <<engineVars, reportVars, store, clock>>

\* the snapshot is saved only when a diff was computed
SaveScan_OnlyWithDiff(i) ==
    /\ run[i].pc = "save"
    /\ IF run[i].diff = Null
       THEN /\ Becomes(i, Onward(run[i], "save"))
            /\ UNCHANGED <<store, clock>>
       ELSE LET object == saveCurrentScan(run[i].webhookPayload,
                                          run[i].validationResults,
                                          ISOStrings[clock + 1])
            IN /\ store' = object
               /\ clock' = clock + 1
               /\ Becomes(i, Onward([Attempted(run[i], "save") EXCEPT
                                        !.saved = object,
                                        !.savedAt = clock + 1], "save"))
    /\ UNCHANGED <<engineVars, reportVars>>

\* 3c. scanHistoryService.saveCurrentScan, in a try of its own
SaveScan(i) ==
    /\ run[i].pc = "save"
    /\ \/ LET object == saveCurrentScan(run[i].webhookPayload,
                                        run[i].validationResults,
                                        ISOStrings[clock + 1])
          IN /\ store' = object
             /\ clock' = clock + 1
             /\ Becomes(i, Onward([Attempted(run[i], "save") EXCEPT
                                      !.saved = object,
                                      !.savedAt = clock + 1], "save"))
       \/ /\ Becomes(i, Onward(AttemptFailed(run[i], "save", "S3 request failed"),
                               "save"))
          /\ UNCHANGED <<store, clock>>
    /\ UNCHANGED <<engineVars, reportVars>>

\* 4. reportGenerator.generate
GenerateReport(i) ==
    /\ run[i].pc = "generate"
    /\ \/ Becomes(i, Onward([Attempted(run[i], "generate") EXCEPT
                                !.pdfBuffer =
                                   GeneratedPdf(run[i].webhookPayload,
                                                run[i].validationResults,
                                                run[i].diff)], "generate"))
       \/ Becomes(i, Caught(AttemptFailed(run[i], "generate", "PDF stream error"),
                            "PDF stream error"))
    /\ UNCHANGED <<engineVars, reportVars, store, clock>>

\* 5. s3Service.uploadReport
UploadReport(i) ==
    /\ run[i].pc = "upload"
    /\ \/ Becomes(i, Onward([Attempted(run[i], "upload") EXCEPT
                                !.reportUrl = ReportUrl(run[i].webhookPayload)],
                            "upload"))
       \/ Becomes(i, Caught(AttemptFailed(run[i], "upload", "S3 request failed"),
                            "S3 request failed"))
    /\ UNCHANGED <<engineVars, reportVars, store, clock>>

\* a failed send is sent again
SendEmail_Retried(i) ==
    /\ run[i].pc = "email"
    /\ \/ Becomes(i, Onward(Attempted(run[i], "email"), "email"))
       \/ /\ Len(run[i].steps) < 12
          /\ Becomes(i, AttemptFailed(run[i], "email", "SES request failed"))
    /\ UNCHANGED <<engineVars, reportVars, store, clock>>

\* 6. emailService.sendReport
SendEmail(i) ==
    /\ run[i].pc = "email"
    /\ \/ Becomes(i, Onward(Attempted(run[i], "email"), "email"))
       \/ Becomes(i, Caught(AttemptFailed(run[i], "email", "SES request failed"),
                            "SES request failed"))
    /\ UNCHANGED <<engineVars, reportVars, store, clock>>

\* 7. metricsService.recordValidation, in a try of its own, and the return;
\* nothing is sent when the metrics are disabled
PublishMetrics(i) ==
    /\ run[i].pc = "metrics"
    /\ \/ Becomes(i, Delivered(Attempted(run[i], "metrics")))
       \/ Becomes(i, Delivered(AttemptFailed(run[i], "metrics",
                                             "CloudWatch request failed")))
       \/ Becomes(i, Delivered(run[i]))
    /\ UNCHANGED <<engineVars, reportVars, store, clock>>

NextHandler ==
    \E i \in Invocations :
        \/ ParseWebhook(i)
        \/ FetchSpec(i)
        \/ Validate(i)
        \/ CompareWithPrevious(i)
        \/ SaveScan(i)
        \/ GenerateReport(i)
        \/ UploadReport(i)
        \/ SendEmail(i)
        \/ PublishMetrics(i)

SpecHandler == InitHandler /\ [][NextHandler]_vars

----------------------------------------------------------------------------
(* Properties of the handler (checked under SpecHandler).                  *)

\* the invocation attempted the step, and the attempt failed
FailedAt(r, step) ==
    \E k \in 1..Len(r.steps) : r.steps[k].step = step /\ Has(r.steps[k], "error")

\* the invocation attempted the step, and the attempt succeeded
SucceededAt(r, step) ==
    \E k \in 1..Len(r.steps) : r.steps[k].step = step /\ ~Has(r.steps[k], "error")

\* the position of the step among the steps attempted, 0 if it was not
PositionOf(r, step) ==
    IF \E k \in 1..Len(r.steps) : r.steps[k].step = step
    THEN CHOOSE k \in 1..Len(r.steps) : r.steps[k].step = step
    ELSE 0

\* the steps without which no report is delivered
EssentialSteps == {"parse", "fetch", "validate", "generate", "upload", "email"}

\* the invocation has ended
Ended(r) == r.pc = "done"

\* the value a response body is the JSON text of
BodyOf(r) == JSONparse(r.response.body)

\* C15: a failure while reading the previous snapshot, computing the diff or
\* saving the new snapshot never stops the run: the handler continues with
\* diff = null (for read and diff failures) and, provided render, upload and
\* email succeed, returns status 200 with the report reference.
C15_HistoryFailuresIsolated ==
    \A i \in Invocations :
        LET r == run[i]
        IN /\ (FailedAt(r, "read") \/ FailedAt(r, "diff")) => r.diff = Null
           /\ (FailedAt(r, "read") \/ FailedAt(r, "diff") \/ FailedAt(r, "save")) =>
                 /\ Ended(r) => PositionOf(r, "generate") > 0
                 /\ (Ended(r) /\ SucceededAt(r, "generate")
                       /\ SucceededAt(r, "upload") /\ SucceededAt(r, "email")) =>
                       /\ r.response.statusCode = 200
                       /\ BodyOf(r).reportUrl = ReportUrl(r.webhookPayload)

\* the positions of the handler: before the event, at a step, after the return
Positions == {"idle", "done"} \cup { Sequel[step] : step \in DOMAIN Sequel }

PastSave(r) ==
    /\ SucceededAt(r, "validate")
    /\ r.pc \in {"generate", "upload", "email", "metrics", "done"}

\* the object holds the snapshot of the invocation's own results
SnapshotOfRun(object, r) ==
    /\ object # Null
    /\ JSONparse(object).owner = r.webhookPayload.owner
    /\ JSONparse(object).apiName = r.webhookPayload.apiName
    /\ JSONparse(object).summary = r.validationResults.summary
    /\ JSONparse(object).issues = r.validationResults.issues

\* the invocations ran one after the other, i1 first, and have both ended
RanInTurn ==
    /\ "i1" \in run["i2"].arrivedAfter
    /\ Ended(run["i2"])

\* the last of the two invocations whose normalization succeeded, if any
LastNormalized ==
    { i \in Invocations :
        /\ SucceededAt(run[i], "validate")
        /\ i = "i1" => ~SucceededAt(run["i2"], "validate") }

\* C17 as stated: in every run whose normalization succeeded the stored
\* snapshot is overwritten with that run's summary and issues, whether or not
\* the diff could be computed.
C17_AlwaysOverwritten ==
    \A i \in Invocations :
        PastSave(run[i]) => SnapshotOfRun(run[i].saved, run[i])

\* C17, amended: in every run whose normalization succeeded the save is
\* attempted once, whether or not the diff could be computed; when the save
\* succeeds the stored snapshot is overwritten with that run's summary and
\* issues, when it fails the stored snapshot is left as it was; the store
\* holds what the last successful save wrote, and after non-overlapping runs
\* with successful saves that is the snapshot of the last run whose
\* normalization succeeded.
C17_OverwrittenWhenSaveSucceeds ==
    /\ \A i \in Invocations :
          LET r == run[i]
          IN /\ PastSave(r) =>
                   /\ PositionOf(r, "save") > 0
                   /\ SucceededAt(r, "save") => SnapshotOfRun(r.saved, r)
                   /\ FailedAt(r, "save") => r.saved = Null /\ r.savedAt = 0
             /\ r.saved # Null <=> r.savedAt > 0
             /\ r.savedAt > 0 => PastSave(r) /\ SucceededAt(r, "save")
             /\ (r.savedAt > 0 /\ r.savedAt = clock) => store = r.saved
    /\ clock > 0 => \E i \in Invocations : run[i].savedAt = clock
    /\ clock = 0 => store \in InitialStores
    /\ (RanInTurn /\ \A i \in Invocations : ~FailedAt(run[i], "save")) =>
          /\ \A i \in LastNormalized : store = run[i].saved
          /\ LastNormalized = {} => store \in InitialStores

\* two runs in turn: the first could compute no diff and saved its snapshot
\* all the same, the second has overwritten it with a snapshot of its own
C17_Witness ==
    /\ RanInTurn
    /\ run["i1"].diff = Null /\ FailedAt(run["i1"], "diff")
    /\ SucceededAt(run["i1"], "save") /\ SucceededAt(run["i2"], "save")
    /\ store = run["i2"].saved
    /\ JSONparse(run["i2"].saved).summary # JSONparse(run["i1"].saved).summary
    /\ run["i2"].response.statusCode = 200

\* the invocation has read the previous snapshot and computed its diff
HasCompared(r) == PositionOf(r, "diff") > 0

\* the snapshot the store holds, Null when it holds none
Baseline == IF store = Null THEN Null ELSE JSONparse(store)

\* C18: two overlapping invocations for one (owner, apiName) can both read
\* the same baseline before either writes; both diffs are then computed
\* against that baseline, the diff of the later writer being stale, and the
\* store is left with the snapshot written last.
C18_ReadModifyWriteRace ==
    /\ \A i \in Invocations :
          LET r == run[i]
          IN HasCompared(r) =>
                /\ r.readAt <= clock
                /\ r.read = "absent" => r.previousScan = Null
                /\ r.read = "found" => r.previousScan # Null
                /\ (r.read # "failed" /\ r.readAt = clock) => r.previousScan = Baseline
                /\ r.diff # Null =>
                      r.diff = compare(r.validationResults, r.previousScan)
    /\ \A i, j \in Invocations :
          LET a == run[i]
              b == run[j]
          IN /\ (HasCompared(a) /\ HasCompared(b) /\ a.readAt = b.readAt
                   /\ a.read # "failed" /\ b.read # "failed") =>
                   a.previousScan = b.previousScan
             /\ (a.savedAt > 0 /\ b.savedAt > a.savedAt /\ b.readAt < a.savedAt) =>
                   /\ b.previousScan # JSONparse(a.saved)
                   /\ store = b.saved
                   /\ store # a.saved

\* both invocations found no snapshot before either wrote one, each has
\* reported a first scan and saved its snapshot; the store holds the one
\* written last
C18_Witness ==
    /\ \A i \in Invocations :
          /\ Ended(run[i]) /\ run[i].response.statusCode = 200
          /\ run[i].read = "absent" /\ run[i].readAt = 0
          /\ run[i].diff # Null /\ run[i].diff.isFirstScan
    /\ run["i2"].savedAt = 1 /\ run["i1"].savedAt = 2
    /\ store = run["i1"].saved
    /\ JSONparse(run["i1"].saved).summary # JSONparse(run["i2"].saved).summary

\* if both steps were attempted, the first was attempted before the second
Precedes(r, first, second) ==
    (PositionOf(r, first) > 0 /\ PositionOf(r, second) > 0) =>
        PositionOf(r, first) < PositionOf(r, second)

\* the second step was attempted only after the first had been
OnlyAfter(r, first, second) ==
    PositionOf(r, second) > 0 =>
        (PositionOf(r, first) > 0 /\ PositionOf(r, first) < PositionOf(r, second))

\* C19 as stated: the stages happen in the order normalization, diff against
\* the previously persisted snapshot, rendering, and the rendered document
\* and the new snapshot are persisted only after the document was produced.
C19_PersistAfterRender ==
    \A i \in Invocations :
        LET r == run[i]
        IN /\ Precedes(r, "validate", "diff")
           /\ Precedes(r, "diff", "generate")
           /\ OnlyAfter(r, "generate", "upload")
           /\ OnlyAfter(r, "generate", "save")

\* the order of the handler's steps
StageOrder ==
    <<"parse", "fetch", "validate", "read", "diff", "save", "generate",
      "upload", "email", "metrics">>

\* C19, amended: the stages happen in the order normalization, read of the
\* previously persisted snapshot and diff against it, save of the new
\* snapshot, rendering with that diff, upload of the rendered document,
\* email; the snapshot is saved before the document is rendered, the
\* document is uploaded only after it was rendered.
C19_SnapshotBeforeRender ==
    \A i \in Invocations :
        LET r == run[i]
        IN /\ Len(r.steps) <= Len(StageOrder)
           /\ \A k \in 1..Len(r.steps) : r.steps[k].step = StageOrder[k]
           /\ OnlyAfter(r, "validate", "diff")
           /\ OnlyAfter(r, "diff", "save")
           /\ OnlyAfter(r, "save", "generate")
           /\ OnlyAfter(r, "generate", "upload")
           /\ r.saved # Null /\ r.pc = "generate" => r.pdfBuffer = Null
           /\ r.pdfBuffer # Null <=> SucceededAt(r, "generate")
           /\ r.pdfBuffer # Null => r.pdfBuffer.diff = r.diff
           /\ r.reportUrl # Null <=> SucceededAt(r, "upload")
           /\ r.reportUrl # Null => r.pdfBuffer # Null

\* a run found the snapshot of the run before it, computed an incremental
\* diff, saved its own snapshot, rendered, uploaded and sent the report
C19_Witness ==
    /\ "i1" \in run["i2"].arrivedAfter
    /\ run["i2"].read = "found"
    /\ run["i2"].previousScan = JSONparse(run["i1"].saved)
    /\ run["i2"].diff # Null /\ ~run["i2"].diff.isFirstScan
    /\ Len(run["i2"].steps) = Len(StageOrder)
    /\ run["i2"].saved # Null
    /\ run["i2"].pdfBuffer.diff = run["i2"].diff
    /\ run["i2"].response.statusCode = 200

\* the external steps of a run
ExternalSteps == {"fetch", "read", "save", "upload", "email", "metrics"}

\* C20: in a single run each external step (fetch, snapshot read, snapshot
\* write, report upload, email send, metrics publish) is attempted at most
\* once; a failed email send or upload is never retried, and after a failure
\* of fetch, normalization, rendering, upload or email no later step of the
\* run is executed.
C20_AtMostOnceNoRetry ==
    \A i \in Invocations :
        LET r == run[i]
        IN /\ \A step \in ExternalSteps :
                 Cardinality({k \in 1..Len(r.steps) : r.steps[k].step = step}) <= 1
           /\ \A k \in 1..Len(r.steps) :
                 (Has(r.steps[k], "error")
                    /\ r.steps[k].step \in
                         {"fetch", "validate", "generate", "upload", "email"}) =>
                    /\ k = Len(r.steps)
                    /\ Ended(r)
                    /\ r.response.statusCode = 500

\* one run has ended at its failed email send, the other at its failed
\* upload without sending an email
C20_Witness ==
    /\ Ended(run["i1"]) /\ FailedAt(run["i1"], "email")
    /\ SucceededAt(run["i1"], "upload")
    /\ PositionOf(run["i1"], "metrics") = 0
    /\ Ended(run["i2"]) /\ FailedAt(run["i2"], "upload")
    /\ PositionOf(run["i2"], "email") = 0
    /\ SucceededAt(run["i2"], "save")

----------------------------------------------------------------------------
(* ReportGenerator (src/services/report-generator.js) composing a PDFKit   *)
(* document.                                                               *)
(*                                                                         *)
(* Lengths are thousandths of a point. A document is its buffered pages,   *)
(* each the sequence of the primitives drawn on it, the index of the page  *)
(* being drawn on, the text cursor (x, y) and the font size. Every         *)
(* primitive records the section and the content block that drew it.       *)
(* Colours, fonts' weights and the horizontal extent of rectangles are not *)
(* represented. A text is given by its parts, strings or sequences of      *)
(* characters, of which only the total length is used: the width of a      *)
(* string is taken as half an em per character.                            *)

\* size: 'A4'
PageWidth == 595280

PageHeight == 841890

\* margins: { top: 60, bottom: 60, left: 50, right: 50 }
Margins == [top |-> 60000, bottom |-> 60000, left |-> 50000, right |-> 50000]

\* page.maxY(): the lowest position of the text area
maxY == PageHeight - Margins.bottom

\* an argument that is not passed
Auto == -1

\* a call without options
NoOptions == [lineBreak |-> TRUE]

\* the block of a primitive that belongs to no content block
Furniture == [kind |-> "furniture", index |-> 0]

\* new PDFDocument({size: 'A4', bufferPages: true, margins}): the first page
\* exists, the cursor is at its top left margin, the font is Helvetica 12
PDFDocument ==
    [pages |-> << <<>> >>,
     page |-> 1,
     x |-> Margins.left,
     y |-> Margins.top,
     size |-> 12,
     section |-> "",
     block |-> Furniture,
     emitted |-> <<>>,
     recommendations |-> <<>>,
     ended |-> FALSE]

\* doc.addPage(): the page is appended to the buffer and becomes current
addPage(d) ==
    [d EXCEPT !.pages = Append(@, <<>>),
              !.page = Len(d.pages) + 1,
              !.x = Margins.left,
              !.y = Margins.top]

\* doc.bufferedPageRange()
bufferedPageRange(d) == [start |-> 0, count |-> Len(d.pages)]

\* doc.switchToPage(n), n counted from 0
switchToPage(d, n) == [d EXCEPT !.page = n + 1]

\* doc.fontSize(size)
fontSize(d, size) == [d EXCEPT !.size = size]

\* doc.currentLineHeight(true) of Helvetica: 1.156 em
currentLineHeight(d) == d.size * 1156

\* doc.moveDown(lines), lines given in tenths
moveDown(d, tenths) ==
    [d EXCEPT !.y = @ + (currentLineHeight(d) * tenths) \div 10]

\* doc.y = y
SetY(d, y) == [d EXCEPT !.y = y]

\* the primitives that follow belong to the block of this kind and index
Block(d, kind, index) == [d EXCEPT !.block = [kind |-> kind, index |-> index]]

\* the primitives that follow belong to the section
Section(d, name) ==
    [d EXCEPT !.section = name, !.block = Furniture,
              !.emitted = Append(@, name)]

\* a primitive is added to the content of the current page
Draw(d, kind, y, height, stamp) ==
    [d EXCEPT !.pages[d.page] =
        Append(@, [section |-> d.section, block |-> d.block, kind |-> kind,
                   y |-> y, height |-> height, stamp |-> stamp])]

\* doc.rect(x, y, w, h).fill(), doc.roundedRect(...).fill(): drawn where it is
\* asked for, on the current page
rect(d, y, height) == Draw(d, "rect", y, height, <<>>)

\* doc.circle(x, y, radius).fillAndStroke()
circle(d, y, radius) == Draw(d, "circle", y - radius, 2 * radius, <<>>)

\* doc.moveTo(x, y).lineTo(x2, y).stroke()
line(d, y) == Draw(d, "line", y, 0, <<>>)

RECURSIVE Chars(_)
\* the length of the string the parts are joined to
Chars(parts) ==
    IF parts = <<>> THEN 0 ELSE Len(Head(parts)) + Chars(Tail(parts))

\* doc.widthOfString(string)
widthOfString(d, parts) == Chars(parts) * d.size * 500

\* the number of lines the wrapper breaks the string into
LinesOf(d, parts, width, indent) ==
    LET needed == widthOfString(d, parts) + indent
    IN IF needed <= width THEN 1 ELSE (needed + width - 1) \div width

\* one line of text is drawn at the cursor, which moves below it
Line(d, lineGap, stamp) ==
    [Draw(d, "text", d.y, currentLineHeight(d), stamp) EXCEPT
        !.y = @ + currentLineHeight(d) + lineGap]

RECURSIVE EmitLines(_, _, _, _)
\* LineWrapper: a line that does not fit above maxY is continued on a new
\* page (continueOnNewPage), which the wrapper appends with addPage
EmitLines(d, n, lineGap, stamp) ==
    IF n = 0 THEN d
    ELSE IF d.y + currentLineHeight(d) > maxY
         THEN EmitLines(Line([addPage(d) EXCEPT !.x = d.x], lineGap, stamp),
                        n - 1, lineGap, stamp)
         ELSE EmitLines(Line(d, lineGap, stamp), n - 1, lineGap, stamp)

\* the text call with the stamp its primitives carry
StampedText(d, parts, x, y, options, stamp) ==
    LET placed == [d EXCEPT !.x = IF x = Auto THEN @ ELSE x,
                            !.y = IF y = Auto THEN @ ELSE y]
        width == IF Has(options, "width") THEN options.width
                 ELSE PageWidth - placed.x - Margins.right
        indent == IF Has(options, "indent") THEN options.indent ELSE 0
        lineGap == IF Has(options, "lineGap") THEN options.lineGap ELSE 0
    IN IF d.ended THEN d
       ELSE EmitLines(placed, LinesOf(placed, parts, width, indent), lineGap, stamp)

\* doc.text(string, x, y, options)
text(d, parts, x, y, options) == StampedText(d, parts, x, y, options, <<>>)

\* config.report
reportTitle == "API Validation Report"

companyName == "API Governance Team"

\* { align: 'center' }
Centered == [align |-> "center"]

\* String(value) of a number, as a text part
Digits(n) == NumberToString(n)

\* addCoverPage(doc, data), drawn on the first page
addCoverPage(d, data) ==
    LET summary == data.validationResults.summary
        bar == rect(Section(d, "cover"), 0, 8000)
        title == text(fontSize(moveDown(bar, 60), 32), <<reportTitle>>,
                      Auto, Auto, Centered)
        subtitle == text(fontSize(moveDown(title, 5), 14),
                         <<"Automated API Specification Analysis">>,
                         Auto, Auto, Centered)
        atLine == moveDown(subtitle, 20)
        divider == line(atLine, atLine.y)
        apiName == text(fontSize(moveDown(divider, 20), 20), <<data.apiName>>,
                        Auto, Auto, Centered)
        version == text(fontSize(moveDown(apiName, 3), 14),
                        <<"Version: ", data.apiVersion>>, Auto, Auto, Centered)
        owner == text(moveDown(version, 3), <<"Owner: ", data.owner>>,
                      Auto, Auto, Centered)
        atBadge == moveDown(owner, 30)
        centerY == atBadge.y + 50000
        badge == circle(atBadge, centerY, 50000)
        score == text(fontSize(badge, 36), <<Digits(summary.score)>>,
                      272500, centerY - 20000, [width |-> 50000])
        outOf == text(fontSize(score, 10), <<"/100">>,
                      272500, centerY + 16000, [width |-> 50000])
        caption == text(fontSize(SetY(outOf, centerY + 70000), 12),
                        <<"API Quality Score">>, Auto, Auto, Centered)
        status == text(fontSize(moveDown(caption, 10), 16),
                       <<IF summary.passedValidation
                         THEN "/ PASSED VALIDATION" ELSE "x VALIDATION FAILED">>,
                       Auto, Auto, Centered)
        generated == text(fontSize(moveDown(status, 60), 10),
                          <<"Generated: ", data.generatedAt>>, Auto, Auto, Centered)
    IN text(generated, <<"By: ", companyName>>, Auto, Auto, Centered)

\* addSectionHeader(doc, title)
addSectionHeader(d, title) ==
    LET band == rect(d, d.y - 5000, 35000)
    IN moveDown(text(fontSize(band, 18), <<title>>, 55000, band.y + 2000, NoOptions), 3)

\* addSubHeader(doc, title)
addSubHeader(d, title) == text(fontSize(d, 13), <<title>>, Auto, Auto, NoOptions)

\* generateSummaryText(data): the sentences joined by a space
generateSummaryText(data) ==
    LET s == data.validationResults.summary
    IN <<"The API specification \"", data.apiName, "\" (version ", data.apiVersion,
         ") was analyzed against OpenAPI compliance rules and API design best practices.",
         " ">>
       \o (IF s.totalIssues = 0
           THEN <<"The specification passed all validation checks with no issues detected.">>
           ELSE <<"A total of ", Digits(s.totalIssues), " issue(s) were identified: ",
                  Digits(s.errors), " error(s), ", Digits(s.warnings),
                  " warning(s), and ", Digits(s.info), " informational finding(s).">>)
       \o <<" ">>
       \o (IF s.passedValidation
           THEN <<"The API specification PASSED validation with no critical errors.">>
           ELSE <<"The API specification FAILED validation due to critical errors that must be resolved ",
                  "before the API can be approved for production use.">>)

\* Object.keys(summary.categories): the categories in the order in which
\* summarizeByCategory met them in the issue list
RECURSIVE KeysFrom(_, _, _)
KeysFrom(issues, k, keys) ==
    IF k > Len(issues) THEN keys
    ELSE KeysFrom(issues, k + 1,
                  IF \E j \in 1..Len(keys) : keys[j] = issues[k].category
                  THEN keys ELSE Append(keys, issues[k].category))

CategoryKeys(results) == KeysFrom(results.issues, 1, <<>>)

\* the stats of the executive summary: Total Issues, Errors, Warnings, Info
Stats(summary) ==
    << [label |-> "Total Issues", value |-> summary.totalIssues],
       [label |-> "Errors", value |-> summary.errors],
       [label |-> "Warnings", value |-> summary.warnings],
       [label |-> "Info", value |-> summary.info] >>

\* the callback of stats.forEach, i counted from 0
StatBox(d, stat, i, statsY) ==
    LET x == 55000 + i * 120000
        box == rect(Block(d, "stat box", i + 1), statsY, 65000)
        value == text(fontSize(box, 28), <<Digits(stat.value)>>,
                      x + 5000, statsY + 8000, [width |-> 95000])
    IN text(fontSize(value, 10), <<stat.label>>,
            x + 5000, statsY + 42000, [width |-> 95000])

RECURSIVE StatBoxes(_, _, _, _)
StatBoxes(d, stats, k, statsY) ==
    IF k > Len(stats) \/ d.ended THEN d
    ELSE StatBoxes(StatBox(d, stats[k], k - 1, statsY), stats, k + 1, statsY)

\* the callback of Object.entries(categories).forEach in the category
\* table, index counted from 0
TableRow(d, category, counts, index, currentY) ==
    LET band == rect(Block(d, "table row", index + 1), currentY, 20000)
        name == text(fontSize(band, 10), <<category>>,
                     60000, currentY + 5000, NoOptions)
        count == text(name, <<Digits(counts.count)>>,
                      350000, currentY + 5000, [width |-> 60000])
        errors == text(count, <<Digits(counts.errors)>>,
                       410000, currentY + 5000, [width |-> 60000])
    IN text(errors, <<Digits(counts.warnings)>>,
            470000, currentY + 5000, [width |-> 70000])

RECURSIVE TableRows(_, _, _, _, _)
\* the rows, and after them doc.y = currentY + 10
TableRows(d, categories, keys, k, currentY) ==
    IF k > Len(keys) \/ d.ended
    THEN SetY([d EXCEPT !.block = Furniture], currentY + 10000)
    ELSE TableRows(TableRow(d, keys[k], categories[keys[k]], k - 1, currentY),
                   categories, keys, k + 1, currentY + 20000)

\* addExecutiveSummary(doc, data)
addExecutiveSummary(d, data) ==
    LET summary == data.validationResults.summary
        header == addSectionHeader(Section(addPage(d), "executive summary"),
                                   "Executive Summary")
        atStats == moveDown(header, 10)
        statsY == atStats.y
        stats == StatBoxes(atStats, Stats(summary), 1, statsY)
        below == moveDown(SetY([stats EXCEPT !.block = Furniture],
                               statsY + 85000), 10)
        overview == text(fontSize(below, 11), generateSummaryText(data),
                         Auto, Auto, [lineGap |-> 4000])
        subHeader == moveDown(addSubHeader(moveDown(overview, 15),
                                           "Issues by Category"), 5)
        currentY == subHeader.y
        band == rect(subHeader, currentY, 22000)
        c1 == text(fontSize(band, 10), <<"Category">>, 60000, currentY + 6000, NoOptions)
        c2 == text(c1, <<"Issues">>, 350000, currentY + 6000, [width |-> 60000])
        c3 == text(c2, <<"Errors">>, 410000, currentY + 6000, [width |-> 60000])
        c4 == text(c3, <<"Warnings">>, 470000, currentY + 6000, [width |-> 70000])
    IN TableRows(c4, summary.categories, CategoryKeys(data.validationResults),
                 1, currentY + 22000)

\* the callback of issues.forEach in addDetailedFindings after its test of
\* doc.y, index counted from 0
IssueEntry(d, issue, index) ==
    LET issueY == d.y
        bar == rect(Block(d, "issue entry", index + 1), issueY, 50000)
        number == text(fontSize(bar, 10), <<"#", Digits(index + 1)>>,
                       62000, issueY + 2000, NoOptions)
        badgeWidth == Len(issue.severity) * 6000 + 12000
        badge == rect(number, issueY, 16000)
        severity == text(fontSize(badge, 8), <<issue.severity>>,
                         96000, issueY + 4000, NoOptions)
        rule == text(severity, <<"Rule: ", issue.code>>,
                     90000 + badgeWidth + 8000, issueY + 4000, NoOptions)
        message == text(fontSize(rule, 10), <<issue.message>>,
                        62000, issueY + 20000, [width |-> 470000])
        path == IF issue.path # <<>>
                THEN text(fontSize(message, 8), <<"Path: ", issue.path>>,
                          62000, message.y + 2000, [width |-> 470000])
                ELSE message
    IN SetY(path, path.y + 12000)

RECURSIVE IssueEntries(_, _, _)
\* issues.forEach: if (doc.y > 700) doc.addPage(), then the entry
IssueEntries(d, issues, k) ==
    IF k > Len(issues) THEN [d EXCEPT !.block = Furniture]
    ELSE IF d.y > 700000
         THEN IssueEntries(IssueEntry(addPage(d), issues[k], k - 1), issues, k + 1)
         ELSE IssueEntries(IssueEntry(d, issues[k], k - 1), issues, k + 1)

\* addDetailedFindings(doc, data)
addDetailedFindings(d, data) ==
    LET issues == data.validationResults.issues
        header == moveDown(addSectionHeader(Section(addPage(d), "detailed findings"),
                                            "Detailed Findings"), 5)
    IN IF Len(issues) = 0
       THEN text(fontSize(header, 14),
                 <<"** No issues found! Your API specification is clean.">>,
                 Auto, Auto, Centered)
       ELSE IssueEntries(header, issues, 1)

\* Math.max(...Object.values(categories).map((c) => c.count))
MaxCount(categories) ==
    CHOOSE m \in {categories[c].count : c \in DOMAIN categories} :
        \A c \in DOMAIN categories : categories[c].count <= m

RECURSIVE SampleLines(_, _, _)
\* categoryIssues.slice(0, 5).forEach: the bullet and, continued on its
\* line, the message
SampleLines(d, categoryIssues, k) ==
    IF k > Len(categoryIssues) \/ k > 5 \/ d.ended THEN d
    ELSE SampleLines(text(fontSize(d, 9), <<"  * ", categoryIssues[k].message>>,
                          60000, d.y, [width |-> 450000]),
                     categoryIssues, k + 1)

\* the callback of Object.entries(categories).forEach in addCategorySummary
\* after its test of doc.y, index counted from 0
CategoryBar(d, data, category, index) ==
    LET categories == data.validationResults.summary.categories
        counts == categories[category]
        name == text(fontSize(Block(d, "category bar", index + 1), 12),
                     <<category>>, Auto, Auto, NoOptions)
        barY == name.y + 2000
        barWidth == (counts.count * 300000) \div MaxCount(categories)
        errors == IF counts.errors > 0 THEN rect(name, barY, 14000) ELSE name
        warnings == IF counts.warnings > 0 THEN rect(errors, barY, 14000) ELSE errors
        others == IF counts.errors + counts.warnings < counts.count
                  THEN rect(warnings, barY, 14000) ELSE warnings
        label == text(fontSize(others, 10), <<Digits(counts.count), " issues">>,
                      55000 + barWidth + 10000, barY + 2000, NoOptions)
        categoryIssues == SelectSeq(data.validationResults.issues,
                                    LAMBDA i : i.category = category)
        samples == SampleLines(SetY(label, barY + 26000), categoryIssues, 1)
        more == IF Len(categoryIssues) > 5
                THEN text(fontSize(samples, 9),
                          <<"  ... and ", Digits(Len(categoryIssues) - 5), " more">>,
                          60000, Auto, NoOptions)
                ELSE samples
    IN moveDown(more, 8)

RECURSIVE CategoryBars(_, _, _, _)
\* Object.entries(categories).forEach: if (doc.y > 720) doc.addPage(), then
\* the bar
CategoryBars(d, data, keys, k) ==
    IF k > Len(keys) THEN [d EXCEPT !.block = Furniture]
    ELSE IF d.y > 720000
         THEN CategoryBars(CategoryBar(addPage(d), data, keys[k], k - 1), data, keys, k + 1)
         ELSE CategoryBars(CategoryBar(d, data, keys[k], k - 1), data, keys, k + 1)

\* addCategorySummary(doc, data)
addCategorySummary(d, data) ==
    CategoryBars(moveDown(addSectionHeader(Section(addPage(d), "category analysis"),
                                           "Category Analysis"), 10),
                 data, CategoryKeys(data.validationResults), 1)

\* the entries of generateRecommendations, in source order
FixSpecificationErrors ==
    [title |-> "Fix OpenAPI Specification Errors",
     description |->
        "Your API specification contains schema errors that violate the OpenAPI standard. "
        \o "These must be fixed to ensure compatibility with API tools and gateways. "
        \o "Use the SwaggerHub editor to identify and correct these issues.",
     priority |-> "High"]

ImproveDocumentation ==
    [title |-> "Improve API Documentation",
     description |->
        "Add missing descriptions, contact information, and licensing details. "
        \o "Well-documented APIs are easier for consumers to understand and integrate with.",
     priority |-> "Medium"]

StandardizeNaming ==
    [title |-> "Standardize Naming Conventions",
     description |->
        "Ensure all URL paths use kebab-case and operation IDs follow a consistent pattern. "
        \o "Consistent naming improves developer experience and API discoverability.",
     priority |-> "Medium"]

DefineResponseModels ==
    [title |-> "Define Complete Response Models",
     description |->
        "Ensure all operations define success and error responses with appropriate schemas. "
        \o "Include standard error response models (400, 401, 404, 500) for consistency.",
     priority |-> "Medium"]

AddressSecurity ==
    [title |-> "Address Security Findings",
     description |->
        "Review and remediate security-related findings. Ensure proper authentication schemes "
        \o "are defined and no sensitive data is exposed in the specification.",
     priority |-> "High"]

AdoptBestPractices ==
    [title |-> "Adopt API Design Best Practices",
     description |->
        "Review the best practice findings and align your API design with organizational standards. "
        \o "This includes proper error handling, consistent patterns, and comprehensive schemas.",
     priority |-> "Low"]

MaintainQualityStandards ==
    [title |-> "Maintain Quality Standards",
     description |->
        "Your API specification meets all validation criteria. Continue following API design "
        \o "best practices and re-validate whenever changes are made.",
     priority |-> "Low"]

\* if (condition) recommendations.push(entry)
PushIf(recommendations, condition, entry) ==
    IF condition THEN Append(recommendations, entry) ELSE recommendations

\* the tests of generateRecommendations, before the catch-all
RuleEntries(categories) ==
    LET Present(name) == name \in DOMAIN categories
        r1 == PushIf(<<>>, Present("Spec Compliance")
                           /\ categories["Spec Compliance"].errors > 0,
                     FixSpecificationErrors)
        r2 == PushIf(r1, Present("Documentation"), ImproveDocumentation)
        r3 == PushIf(r2, Present("Naming Conventions"), StandardizeNaming)
        r4 == PushIf(r3, Present("Response Design"), DefineResponseModels)
        r5 == PushIf(r4, Present("Security"), AddressSecurity)
    IN PushIf(r5, Present("Best Practice"), AdoptBestPractices)

\* the catch-all entry is pushed whatever the rules produced
generateRecommendations_CatchAllAlways(results) ==
    Append(RuleEntries(results.summary.categories), MaintainQualityStandards)

\* generateRecommendations(validationResults)
generateRecommendations(results) ==
    LET recommendations == RuleEntries(results.summary.categories)
    IN PushIf(recommendations, Len(recommendations) = 0, MaintainQualityStandards)

\* the callback of recommendations.forEach after its test of doc.y, index
\* counted from 0
RecommendationBlock(d, rec, index) ==
    LET title == text(fontSize(Block(d, "recommendation", index + 1), 11),
                      <<Digits(index + 1), ". ", rec.title>>, Auto, Auto, NoOptions)
        description == text(fontSize(title, 10), <<rec.description>>, Auto, Auto,
                            [indent |-> 15000, lineGap |-> 3000])
        priority == IF rec.priority # ""
                    THEN text(fontSize(description, 9), <<"Priority: ", rec.priority>>,
                              Auto, Auto, [indent |-> 15000])
                    ELSE description
    IN moveDown(priority, 8)

RECURSIVE RecommendationBlocks(_, _, _)
\* recommendations.forEach: if (doc.y > 720) doc.addPage(), then the block
RecommendationBlocks(d, recommendations, k) ==
    IF k > Len(recommendations) THEN [d EXCEPT !.block = Furniture]
    ELSE IF d.y > 720000
         THEN RecommendationBlocks(RecommendationBlock(addPage(d), recommendations[k], k - 1),
                                   recommendations, k + 1)
         ELSE RecommendationBlocks(RecommendationBlock(d, recommendations[k], k - 1),
                                   recommendations, k + 1)

\* addRecommendations(doc, data)
addRecommendations(d, data) ==
    LET recommendations == generateRecommendations(data.validationResults)
        header == moveDown(addSectionHeader(Section(addPage(d), "recommendations"),
                                            "Recommendations"), 10)
        listed == RecommendationBlocks([header EXCEPT !.recommendations = recommendations],
                                       recommendations, 1)
    IN text(fontSize(moveDown(listed, 20), 10),
            <<"This report was automatically generated by the API Governance validation pipeline. ",
              "For questions or to request exceptions, contact the API Governance team.">>,
            Auto, Auto, [align |-> "center", lineGap |-> 3000])

RECURSIVE FooterFrom(_, _, _)
\* the loop of addFooter over the page indexes i = 0 .. pages.count - 1
FooterFrom(d, i, count) ==
    IF i >= count \/ d.ended THEN d
    ELSE LET page == Block(switchToPage(d, i), "footer", i + 1)
             stamp == StampedText(fontSize(page, 8),
                                  <<"Page ", Digits(i + 1), " of ", Digits(count)>>,
                                  50000, 780000, Centered, <<i + 1, count>>)
         IN FooterFrom(rect(stamp, 834000, 8000), i + 1, count)

\* addFooter(doc)
addFooter(d) ==
    LET pages == bufferedPageRange(d)
    IN [FooterFrom(Section(d, "footer"), 0, pages.count) EXCEPT !.block = Furniture]

\* doc.end()
end(d) == [d EXCEPT !.ended = TRUE]

\* the calls of generate after the document is constructed, in source order
Sections ==
    <<"cover", "executive summary", "detailed findings", "category analysis",
      "recommendations", "footer">>

\* generate has made the calls that precede the call of the section
About(section) ==
    /\ ~pdfDocument.ended
    /\ \E k \in 1..Len(Sections) :
          /\ Sections[k] = section
          /\ pdfDocument.emitted = SubSeq(Sections, 1, k - 1)

----------------------------------------------------------------------------
(* Specification of the report: generate is called with the results of     *)
(* validate on payloads whose violations fall into one to nine categories, *)
(* with messages of one, two or several lines, and with no diff, a         *)
(* first-scan diff or an incremental diff.                                 *)

\* the largest number of violations of one category
MaxPerCategory == 6

\* one rule identifier for each category: Structure, Server Configuration
\* and General, for which generateRecommendations has no entry, come first
ReportRules ==
    << <<"o","p","e","r","a","t","i","o","n","-","t","a","g","s">>,
       <<"h","o","s","t","-","s","c","h","e","m","e">>,
       <<"c","u","s","t","o","m","-","r","u","l","e">>,
       <<"o","a","s","3","-","s","c","h","e","m","a">>,
       <<"i","n","f","o","-","c","o","n","t","a","c","t">>,
       <<"p","a","t","h","-","c","a","s","i","n","g">>,
       <<"o","p","e","r","a","t","i","o","n","-","s","u","c","c","e","s","s","-","r","e","s","p","o","n","s","e">>,
       <<"s","e","c","u","r","i","t","y","-","d","e","f","i","n","e","d">>,
       <<"B","P","-","p","a","g","i","n","a","t","i","o","n">> >>

RECURSIVE Repeated(_, _)
\* the string written n times
Repeated(str, n) == IF n = 0 THEN "" ELSE str \o Repeated(str, n - 1)

\* messages of 44, 132, 572 and 1100 characters
ReportMessages ==
    { Repeated("Operation must have non-empty \"tags\" array.", n) : n \in {1, 3, 13, 25} }

\* the raw severities the categories take in turn
ReportSeverities == <<sERROR, sWARN, sINFO>>

\* the violations of a payload: inFirst records of the first rule and one of
\* each of the next rules, categories rules in all; the severities rotate
\* from one rule to the next, starting at offset; all carry one message
ReportRecords(categories, inFirst, offset, message) ==
    [k \in 1..(inFirst + categories - 1) |->
        LET rule == IF k <= inFirst THEN 1 ELSE k - inFirst + 1
        IN [ruleName |-> ReportRules[rule],
            message |-> message,
            severity |-> Str(ReportSeverities[((rule + offset) % 3) + 1]),
            pointer |-> pPathsX]]

ReportResults ==
    { validate([errors |-> Arr(ReportRecords(c, n, offset, message))]) :
        c \in 1..Len(ReportRules), n \in 1..MaxPerCategory,
        offset \in 0..2, message \in ReportMessages }
    \cup { validate([errors |-> Arr(<<>>)]) }

\* the diff the handler passes: none, a first-scan report, an incremental one
ReportDiffs(results) ==
    { Null,
      compare(results, Null),
      compare(results, SnapshotOf(validate([errors |-> Arr(<<>>)]))) }

\* the object the handler passes to generate
ReportData(results, diffReport) ==
    [apiName |-> "petstore",
     apiVersion |-> "1.0.0",
     owner |-> "acme",
     validationResults |-> results,
     diff |-> diffReport,
     generatedAt |-> "2026-01-01T00:00:00.000Z"]

InitReport ==
    /\ \E results \in ReportResults :
          \E diffReport \in ReportDiffs(results) :
              reportData = ReportData(results, diffReport)
    /\ pdfDocument = PDFDocument
    /\ standardizationData = [errors |-> Arr(<<>>)]
    /\ validationResults = validate(standardizationData)
    /\ currentResults = validationResults
    /\ previousScan = Null
    /\ diff = Null
    /\ store = Null
    /\ run = [i \in Invocations |-> RunLocals("idle", Null, {})]
    /\ clock = 0

\* this.addCoverPage(doc, data)
AddCoverPage ==
    /\ About("cover")
    /\ pdfDocument' = addCoverPage(pdfDocument, reportData)
    /\ UNCHANGED <<engineVars, handlerVars, reportData>>

\* this.addExecutiveSummary(doc, data)
AddExecutiveSummary ==
    /\ About("executive summary")
    /\ pdfDocument' = addExecutiveSummary(pdfDocument, reportData)
    /\ UNCHANGED <<engineVars, handlerVars, reportData>>

\* this.addDetailedFindings(doc, data)
AddDetailedFindings ==
    /\ About("detailed findings")
    /\ pdfDocument' = addDetailedFindings(pdfDocument, reportData)
    /\ UNCHANGED <<engineVars, handlerVars, reportData>>

\* this.addCategorySummary(doc, data)
AddCategorySummary ==
    /\ About("category analysis")
    /\ pdfDocument' = addCategorySummary(pdfDocument, reportData)
    /\ UNCHANGED <<engineVars, handlerVars, reportData>>

\* this.addRecommendations(doc, data)
AddRecommendations ==
    /\ About("recommendations")
    /\ pdfDocument' = addRecommendations(pdfDocument, reportData)
    /\ UNCHANGED <<engineVars, handlerVars, reportData>>

\* this.addFooter(doc); doc.end()
AddFooter ==
    /\ About("footer")
    /\ pdfDocument' = end(addFooter(pdfDocument))
    /\ UNCHANGED <<engineVars, handlerVars, reportData>>

NextReport ==
    \/ AddCoverPage
    \/ AddExecutiveSummary
    \/ AddDetailedFindings
    \/ AddCategorySummary
    \/ AddRecommendations
    \/ AddFooter

SpecReport == InitReport /\ [][NextReport]_vars

----------------------------------------------------------------------------
(* Properties of the report.                                               *)

\* a document is being composed
Composing == Has(pdfDocument, "pages")

\* generate has made all its calls, doc.end() included
Composed == Composing /\ pdfDocument.ended

\* the sections a payload's report is said to consist of, in their order
SectionsFor(data) ==
    <<"cover", "executive summary">>
    \o (IF data.diff # Null /\ ~data.diff.isFirstScan THEN <<"diff">> ELSE <<>>)
    \o <<"detailed findings", "category analysis", "recommendations", "footer">>

\* C21: for every payload generate emits the sections in the order cover,
\* executive summary, diff section, detailed findings, category analysis,
\* recommendations, footer pass, and the diff section is emitted exactly
\* when the payload carries a diff whose isFirstScan is false
C21_SectionsInOrderWithDiff ==
    Composed => pdfDocument.emitted = SectionsFor(reportData)

\* the sections other than the diff section are emitted in the order
\* stated, the footer pass last, whatever the payload's diff is
C21_OtherSectionsInOrder ==
    Composing =>
        /\ \E k \in 0..Len(Sections) : pdfDocument.emitted = SubSeq(Sections, 1, k)
        /\ pdfDocument.ended <=> pdfDocument.emitted = Sections

\* generate has ended for a payload with an incremental diff
C21_IncrementalDiffComposed ==
    /\ Composed
    /\ reportData.diff # Null
    /\ ~reportData.diff.isFirstScan

\* the kinds of content block
ContentBlocks ==
    {"stat box", "table row", "issue entry", "category bar", "recommendation"}

\* the content blocks that have a primitive on page p
BlocksOn(p) ==
    { <<pdfDocument.pages[p][j].section, pdfDocument.pages[p][j].block>> :
        j \in { i \in 1..Len(pdfDocument.pages[p]) :
                  pdfDocument.pages[p][i].block.kind \in ContentBlocks } }

\* C22: a content block (stat box, table row, issue entry, category bar with
\* its sample lines, recommendation block) that does not fit above the
\* bottom margin is drawn on a new page, so that the primitives of no block
\* land on two pages
C22_BlocksOnOnePage ==
    Composing =>
        \A p, q \in 1..Len(pdfDocument.pages) :
            p < q => BlocksOn(p) \cap BlocksOn(q) = {}

\* the stamps drawn on page p
StampsOn(p) ==
    SelectSeq(pdfDocument.pages[p], LAMBDA primitive : primitive.stamp # <<>>)

\* C23: after the finalization pass every page of the document carries
\* exactly one footer stamp 'Page i of N', i being the page's index counted
\* from 1 and N the number of pages of the document; the pass adds no page
C23_OneStampPerPage ==
    Composed =>
        \A p \in 1..Len(pdfDocument.pages) :
            /\ Len(StampsOn(p)) = 1
            /\ StampsOn(p)[1].stamp = <<p, Len(pdfDocument.pages)>>

\* the tests of the rule table: the category a rule looks for, and whether
\* it asks for errors in it
RecommendationRules ==
    { [category |-> "Spec Compliance", errors |-> TRUE],
      [category |-> "Documentation", errors |-> FALSE],
      [category |-> "Naming Conventions", errors |-> FALSE],
      [category |-> "Response Design", errors |-> FALSE],
      [category |-> "Security", errors |-> FALSE],
      [category |-> "Best Practice", errors |-> FALSE] }

\* the rules a summary triggers
Triggered(summary) ==
    { rule \in RecommendationRules :
        /\ rule.category \in DOMAIN summary.categories
        /\ rule.errors => summary.categories[rule.category].errors > 0 }

\* the titles of a list of recommendations
Titles(recommendations) ==
    { recommendations[k].title : k \in 1..Len(recommendations) }

\* addRecommendations has run
Recommended ==
    /\ Composing
    /\ \E k \in 1..Len(pdfDocument.emitted) : pdfDocument.emitted[k] = "recommendations"

\* C24: generateRecommendations returns a non-empty list; the catch-all
\* entry 'Maintain Quality Standards' is in it exactly when no category
\* triggered a rule of the table, and it is then the only entry
C24_CatchAllIffNoRule ==
    Recommended =>
        LET recommendations == pdfDocument.recommendations
            summary == reportData.validationResults.summary
        IN /\ Len(recommendations) >= 1
           /\ "Maintain Quality Standards" \in Titles(recommendations)
                <=> Triggered(summary) = {}
           /\ "Maintain Quality Standards" \in Titles(recommendations)
                => Len(recommendations) = 1
           /\ Len(recommendations) = Max(1, Cardinality(Triggered(summary)))

\* the catch-all is the only recommendation of a report that lists
\* violations, none of them in a category of the rule table
C24_Witness ==
    /\ Recommended
    /\ Titles(pdfDocument.recommendations) = {"Maintain Quality Standards"}
    /\ reportData.validationResults.summary.totalIssues > 0

----------------------------------------------------------------------------
(* The SwaggerHub Registry API as the client sees it, and the handler's    *)
(* steps up to validate run against it.                                    *)

\* the URL fetchApiSpec requests
ApiSpecUrl(owner, apiName, version) ==
    IF version # "" /\ version # "latest"
    THEN "/apis/" \o owner \o "/" \o apiName \o "/" \o version
    ELSE "/apis/" \o owner \o "/" \o apiName

\* the URL fetchStandardizationErrors requests
StandardizationUrl(owner, apiName, version) ==
    "/apis/" \o owner \o "/" \o apiName \o "/" \o version \o "/standardization"

\* this.http.get(url): response.data, or the error of a 404 response
Get(registry, url) ==
    IF url \in DOMAIN registry THEN registry[url]
    ELSE Threw("Request failed with status code 404")

\* SwaggerHubClient.fetchApiSpec
fetchApiSpec(registry, owner, apiName, version) ==
    LET response == Get(registry, ApiSpecUrl(owner, apiName, version))
    IN IF Returned(response) THEN response
       ELSE Threw("API not found: " \o owner \o "/" \o apiName \o "@" \o version
                  \o ". (" \o response.threw \o ")")

\* SwaggerHubClient.fetchStandardizationErrors
fetchStandardizationErrors(registry, owner, apiName, version) ==
    LET response == Get(registry, StandardizationUrl(owner, apiName, version))
    IN IF Returned(response) THEN response
       ELSE Threw("Standardization not available for " \o owner \o "/" \o apiName
                  \o "@" \o version
                  \o ". Ensure Standardization is enabled for your organization. ("
                  \o response.threw \o ")")

\* the OpenAPI definition of the version, and the listing of the API's
\* versions served when no version is named
ApiDefinition ==
    [openapi |-> "3.0.0", info |-> [title |-> "petstore", version |-> "1.0.0"]]

ApiListing == [apis |-> Arr(<<[name |-> "petstore"]>>)]

\* what the registry serves for acme/petstore when the Standardization
\* result of its versions is result
Registry(result) ==
    [url \in {"/apis/acme/petstore", "/apis/acme/petstore/1.0.0",
              "/apis/acme/petstore/1.0.0/standardization",
              "/apis/acme/petstore/latest/standardization"} |->
        IF url = "/apis/acme/petstore" THEN ApiListing
        ELSE IF url = "/apis/acme/petstore/1.0.0" THEN ApiDefinition
        ELSE result]

\* the Standardization results upstream: no violation, one, two
UpstreamResults ==
    { [errors |-> Arr(<<>>)] }
    \cup { [errors |-> Arr(<<err>>)] : err \in CoreRecords }
    \cup { [errors |-> Arr(<<err, [message |-> "m2", severity |-> Num(3)]>>)] :
             err \in CoreRecords }

\* standardizationData is the result the registry holds for the versions of
\* acme/petstore; no invocation has been received
InitUpstream ==
    /\ standardizationData \in UpstreamResults
    /\ validationResults = validate(standardizationData)
    /\ InitDiffIdle

\* 2. swaggerHubClient.fetchApiSpec(owner, apiName, version)
FetchApiSpec(i) ==
    /\ run[i].pc = "fetch"
    /\ \/ LET payload == run[i].webhookPayload
              document == fetchApiSpec(Registry(standardizationData), payload.owner,
                                       payload.apiName, payload.version)
          IN IF Returned(document)
             THEN Becomes(i, Onward([Attempted(run[i], "fetch") EXCEPT
                                       !.apiSpec = document], "fetch"))
             ELSE Becomes(i, Caught(AttemptFailed(run[i], "fetch", document.threw),
                                    document.threw))
       \/ Becomes(i, Caught(AttemptFailed(run[i], "fetch",
                                          "Failed to connect to SwaggerHub: timeout"),
                            "Failed to connect to SwaggerHub: timeout"))
    /\ UNCHANGED <<engineVars, reportVars, store, clock>>

NextUpstream ==
    \E i \in Invocations :
        \/ ParseWebhook(i)
        \/ FetchApiSpec(i)
        \/ Validate(i)

SpecUpstream == InitUpstream /\ [][NextUpstream]_vars

----------------------------------------------------------------------------
(* Properties of the data the handler validates (checked under             *)
(* SpecUpstream).                                                          *)

\* validate has returned in the invocation
Normalized(r) == r.validationResults # Null

\* C25: in every run that reaches normalization, the data given to validate
\* is the violation list fetched from the Standardization endpoint for the
\* webhook's owner, API name and version, so that the violations reported
\* upstream are the issues of the run's summary
C25_ValidatesStandardizationResult ==
    \A i \in Invocations :
        Normalized(run[i]) =>
            /\ run[i].apiSpec =
                  fetchStandardizationErrors(Registry(standardizationData),
                                             run[i].webhookPayload.owner,
                                             run[i].webhookPayload.apiName,
                                             run[i].webhookPayload.version)
            /\ run[i].validationResults.summary.totalIssues =
                  Len(ErrorList(standardizationData))

\* what is validated is the response to the request for the API itself,
\* and no summary counts an issue
C25_ValidatesApiDefinition ==
    \A i \in Invocations :
        Normalized(run[i]) =>
            /\ run[i].apiSpec \in {ApiDefinition, ApiListing}
            /\ run[i].validationResults.summary.totalIssues = 0

\* a run has normalized while the registry reports violations of the version
C25_NormalizedWithViolationsUpstream ==
    /\ Len(ErrorList(standardizationData)) > 0
    /\ \E i \in Invocations : Normalized(run[i])

----------------------------------------------------------------------------
(* Properties of the diff of lists in which a fingerprint occurs more than *)
(* once (checked under SpecDiff).                                          *)

\* the list in the opposite order
Reversed(q) == [k \in 1..Len(q) |-> q[Len(q) + 1 - k]]

\* the Map of fingerprints in which the first issue of a fingerprint is kept
FirstWins(issues) == FingerprintMap(Reversed(issues))

\* two issues of the list share a fingerprint
Repeats(issues) ==
    \E j, k \in 1..Len(issues) :
        j < k /\ _fingerprint(issues[j]) = _fingerprint(issues[k])

\* C26: against a non-null previous snapshot every occurrence is classified,
\* also when issues of one list share a fingerprint: newIssues and
\* persistingIssues together are as long as the current list, resolvedIssues
\* is as long as the number of previous issues whose fingerprint is absent
\* from the current list, and the lists are the same when the other
\* duplicate is kept in the fingerprint maps
C26_EveryOccurrenceClassified ==
    ComparedWithPrevious =>
        LET curr == currentResults.issues
            prev == PrevIssuesOf(previousScan)
        IN /\ Len(diff.newIssues) + Len(diff.persistingIssues) = Len(curr)
           /\ Len(diff.resolvedIssues) =
                Cardinality({ k \in 1..Len(prev) :
                                _fingerprint(prev[k]) \notin Fingerprints(curr) })
           /\ diff.newIssues = NewIssues(curr, FirstWins(prev))
           /\ diff.persistingIssues = PersistingIssues(curr, FirstWins(prev))
           /\ diff.resolvedIssues = ResolvedIssues(prev, FirstWins(curr))

\* two different current issues of one fingerprint, both new, against a
\* snapshot of two issues of another fingerprint, both resolved
C26_Witness ==
    /\ ComparedWithPrevious
    /\ Repeats(currentResults.issues)
    /\ FingerprintMap(currentResults.issues) # FirstWins(currentResults.issues)
    /\ Repeats(PrevIssuesOf(previousScan))
    /\ Len(diff.newIssues) = 2
    /\ Len(diff.resolvedIssues) = 2

----------------------------------------------------------------------------
(* Properties of the summary and its issue list (checked under             *)
(* SpecValidate).                                                          *)

RECURSIVE CategoryTotalOver(_, _, _)
CategoryTotalOver(categories, names, field) ==
    IF names = {} THEN 0
    ELSE LET c == CHOOSE c \in names : TRUE
         IN categories[c][field] + CategoryTotalOver(categories, names \ {c}, field)

\* the counts of one kind added up over the categories
CategoryTotal(categories, field) ==
    CategoryTotalOver(categories, DOMAIN categories, field)

\* the number of issues of the list with the severity
Occurrences(issues, severity) ==
    Cardinality({ k \in 1..Len(issues) : issues[k].severity = severity })

\* C27: the summary returned by validate is consistent with its issue list:
\* totalIssues is errors + warnings + info + hints and the number of issues,
\* the category counts add up to totalIssues, the category errors to errors,
\* the category warnings to warnings, and in every category errors +
\* warnings is at most count
C27_SummaryConsistent ==
    LET issues == validationResults.issues
        summary == validationResults.summary
        categories == summary.categories
    IN /\ summary.totalIssues
            = summary.errors + summary.warnings + summary.info + summary.hints
       /\ summary.totalIssues = Len(issues)
       /\ summary.errors = Occurrences(issues, "Error")
       /\ summary.warnings = Occurrences(issues, "Warning")
       /\ CategoryTotal(categories, "count") = summary.totalIssues
       /\ CategoryTotal(categories, "errors") = summary.errors
       /\ CategoryTotal(categories, "warnings") = summary.warnings
       /\ \A c \in DOMAIN categories :
             /\ categories[c].errors + categories[c].warnings <= categories[c].count
             /\ categories[c].count =
                   Cardinality({ k \in 1..Len(issues) : issues[k].category = c })

\* errors and warnings in two categories or more, one of which also holds
\* an issue that is neither
C27_Witness ==
    LET summary == validationResults.summary
    IN /\ summary.errors > 0
       /\ summary.warnings > 0
       /\ Cardinality(DOMAIN summary.categories) >= 2
       /\ \E c \in DOMAIN summary.categories :
             summary.categories[c].errors + summary.categories[c].warnings
                < summary.categories[c].count

----------------------------------------------------------------------------
(* Properties of the read of the previous snapshot (checked under          *)
(* SpecHandler).                                                           *)

\* invocation i makes step 3b: it reads the snapshot and compares
Reads(i) == run[i].pc = "diff" /\ run'[i].pc # "diff"

\* the diff of results against the stored object, null when compare throws
DiffAgainst(results, object) ==
    LET report == TryCompare(results, JSONparse(object))
    IN IF Returned(report) THEN report ELSE Null

\* C28: a run reports a diff with isFirstScan = true only if no snapshot is
\* stored for its (owner, apiName) at the time of the read; when a snapshot
\* is stored, the run diffs against it or proceeds with diff = null
C28_FirstScanOnlyWithoutSnapshot ==
    [][\A i \in Invocations :
          Reads(i) =>
             /\ (run'[i].diff # Null /\ run'[i].diff.isFirstScan) => store = Null
             /\ store # Null =>
                   \/ run'[i].diff = Null
                   \/ run'[i].diff = DiffAgainst(run[i].validationResults, store)]_vars

\* the same of the runs whose request for the snapshot does not fail
C28_FirstScanWhenReadSucceeds ==
    [][\A i \in Invocations :
          (Reads(i) /\ run'[i].read # "failed") =>
             /\ (run'[i].diff # Null /\ run'[i].diff.isFirstScan) => store = Null
             /\ store # Null =>
                   run'[i].diff = DiffAgainst(run[i].validationResults, store)]_vars

\* a run whose request failed after a snapshot had been written reports a
\* first scan
C28_FirstScanDespiteSnapshot ==
    \E i \in Invocations :
        /\ run[i].read = "failed"
        /\ run[i].readAt > 0
        /\ run[i].diff # Null
        /\ run[i].diff.isFirstScan

----------------------------------------------------------------------------
(* Properties of a run that follows a run on the same input (checked       *)
(* under SpecHandler).                                                     *)

\* the diff of the run reports no change: every current issue persists
ReportsNoChange(r) ==
    /\ r.diff # Null
    /\ r.diff.isFirstScan = FALSE
    /\ r.diff.newIssues = <<>>
    /\ r.diff.resolvedIssues = <<>>
    /\ r.diff.persistingIssues = r.validationResults.issues
    /\ r.diff.scoreChange = 0
    /\ \A f \in DOMAIN r.diff.summaryDelta : r.diff.summaryDelta[f] = 0

\* invocation j has compared; it arrived when invocation i had ended with
\* its snapshot saved, and has normalized the same raw input
Follows(j, i) ==
    /\ i # j
    /\ i \in run[j].arrivedAfter
    /\ run[i].savedAt > 0
    /\ run[j].apiSpec = run[i].apiSpec
    /\ HasCompared(run[j])

\* a run reads the previous snapshot before it writes its own and never
\* diffs against its own result
ReadsBeforeItWrites ==
    \A i \in Invocations :
        run[i].savedAt > 0 =>
            /\ HasCompared(run[i])
            /\ run[i].readAt < run[i].savedAt
            /\ run[i].previousScan # JSONparse(run[i].saved)

\* C29: within one run the previous snapshot is read before the new one is
\* written, so that a run never diffs against its own result; and of two
\* runs for one (owner, apiName) that do not overlap and normalize the same
\* raw input, the first having saved its snapshot, the second has a diff
\* with isFirstScan = false, no new and no resolved issue, every current
\* issue persisting, scoreChange 0 and an all-zero summaryDelta
C29_ReadBeforeWriteAndIdempotent ==
    /\ ReadsBeforeItWrites
    /\ \A i, j \in Invocations : Follows(j, i) => ReportsNoChange(run[j])

\* the same of the second runs whose request for the snapshot does not fail
C29_IdempotentWhenReadSucceeds ==
    /\ ReadsBeforeItWrites
    /\ \A i, j \in Invocations :
          (Follows(j, i) /\ run[j].read # "failed") => ReportsNoChange(run[j])

\* a second run on an input with a violation has read the first run's
\* snapshot and reports the violation as persisting
C29_SecondRunReportsNoChange ==
    \E i, j \in Invocations :
        /\ Follows(j, i)
        /\ run[j].read = "found"
        /\ Len(run[j].validationResults.issues) > 0
        /\ ReportsNoChange(run[j])

----------------------------------------------------------------------------
(* Specification of one handler run on events whose body carries, lacks or *)
(* leaves empty each of the field names the owner and the API name are     *)
(* accepted under.                                                         *)

\* what a body may hold under a field name: nothing, the empty string, or
\* the name
FieldValues(field, name) ==
    IF field \in {"owner", "apiName"} THEN {"absent", "", name} ELSE {"absent", name}

\* the body with the field set, unless the field is to be absent
WithField(body, field, value) ==
    IF value = "absent" THEN body
    ELSE [f \in DOMAIN body \cup {field} |-> IF f = field THEN value ELSE body[f]]

IdentityBodies ==
    { WithField(WithField(WithField(WithField(WithField([version |-> "1.0.0"],
          "owner", owner), "organization", organization),
          "apiName", apiName), "api", api), "name", name) :
        owner \in FieldValues("owner", "acme"),
        organization \in FieldValues("organization", "acme"),
        apiName \in FieldValues("apiName", "petstore"),
        api \in FieldValues("api", "petstore"),
        name \in FieldValues("name", "petstore") }

\* the events of API Gateway, whose body is a string, and direct invocations
IdentityEvents ==
    { [body |-> JSONstringify(body)] : body \in IdentityBodies } \cup IdentityBodies

NextWebhook ==
    \/ ParseWebhookFrom("i1", IdentityEvents)
    \/ FetchSpec("i1")
    \/ Validate("i1")
    \/ CompareWithPrevious("i1")
    \/ SaveScan("i1")
    \/ GenerateReport("i1")
    \/ UploadReport("i1")
    \/ SendEmail("i1")
    \/ PublishMetrics("i1")

SpecWebhook == InitHandler /\ [][NextWebhook]_vars

----------------------------------------------------------------------------
(* Properties of the handler on payloads without owner or API name         *)
(* (checked under SpecWebhook).                                            *)

\* the body of the event as sent
SentBody(event) == IF Has(event, "body") THEN event.body.json ELSE event

\* the body holds a non-empty value under none of the names
LacksAll(body, names) == \A f \in names : ~Has(body, f) \/ body[f] = ""

\* the payload lacks an owner or an API name
LacksIdentity(event) ==
    \/ LacksAll(SentBody(event), {"owner", "organization"})
    \/ LacksAll(SentBody(event), {"apiName", "api", "name"})

\* C30: when the webhook payload lacks an owner or an API name under every
\* accepted field name, the handler returns status 500 with the message
\* 'Invalid webhook payload: missing owner or apiName' and performs no
\* external step: no upstream fetch, no snapshot read or write, no upload
\* and no email
C30_InvalidPayloadTouchesNothing ==
    \A i \in Invocations :
        LET r == run[i]
        IN (r.pc # "idle" /\ LacksIdentity(r.event)) =>
              /\ Ended(r)
              /\ r.response.statusCode = 500
              /\ BodyOf(r).error = "Invalid webhook payload: missing owner or apiName"
              /\ r.steps = <<[step |-> "parse",
                              error |-> "Invalid webhook payload: missing owner or apiName"]>>
              /\ r.apiSpec = Null
              /\ r.read = "none"
              /\ r.savedAt = 0
              /\ r.reportUrl = Null
              /\ clock = 0

\* a payload that names the owner as organization and leaves apiName empty
\* has been answered
C30_Witness ==
    \E i \in Invocations :
        /\ Ended(run[i])
        /\ Has(run[i].event, "body")
        /\ LacksIdentity(run[i].event)
        /\ Has(SentBody(run[i].event), "organization")
        /\ Has(SentBody(run[i].event), "apiName")
        /\ run[i].response.statusCode = 500

============================================================================
